---- MODULE Spec2Model ----
(***************************************************************************)
(* LaserCenterline: the raster-to-vector pipeline of ImageProcessor.       *)
(*                                                                         *)
(* A mask (Uint8Array of 0/1 cells, row-major, index y*w+x) is modelled as *)
(* the set of the indices whose cell is 1.  A Point is <<x, y>>.  The      *)
(* coordinates of an optimized path are kept in units of 1/Scale pixel, so *)
(* that the window-3 moving average (a division by 2 or 3) stays exact.    *)
(***************************************************************************)
EXTENDS Integers, Sequences, FiniteSets, TLC

VARIABLES pc, image, params, binaryData, silhouettePaths, filteredRegions,
          innerPaths, dispatch, result, rmask, regions, skeleton, chains, dropped,
          poly, epsilon, simplified, gray, rebin, kind, once, twice,
          build, status, appImage, imageElement, appResult, error, showPreview,
          loads, tasks, previewOf, isGenerating, previews,
          defaults, handed, suggested, connected, variant, contours, walks

\* the variables of the pipeline run
pipeVars == <<image, params, binaryData, silhouettePaths, filteredRegions,
              innerPaths, dispatch, result>>

\* the variables of the skeletonizer and skeleton tracer run on their own
skelVars == <<skeleton, chains, dropped>>

\* the variables the pipeline run does not use
\* the variables of ramerDouglasPeucker run on its own
rdpVars == <<poly, epsilon, simplified>>

\* the variables of toBinary run on its own
binVars == <<gray, rebin>>

\* the variables of optimizePath run on its own, twice
optVars == <<kind, once, twice>>

\* the state of the App component (image, result are appImage, appResult),
\* its pending file reads and processImage calls, and the state of the
\* PreviewPanel it renders
appVars == <<build, status, appImage, imageElement, appResult, error, showPreview,
             loads, tasks, previewOf, isGenerating, previews>>

\* the static field ImageProcessor.defaultParams, whether a caller holds the
\* object suggestParams returned, and what each suggestParams call returned
statVars == <<defaults, handed, suggested>>

\* the list of polylines the merge loop of optimizePaths works on, and which of
\* the two optimizePaths it is
mergeVars == <<connected, variant>>

\* per region of the mask, the polygons traceContour returns and the walks it
\* makes
contourVars == <<contours, walks>>

extraVars == <<mergeVars, contourVars>>

otherVars == <<skelVars, rdpVars, binVars, optVars, appVars, statVars, extraVars>>

vars == <<pc, image, params, binaryData, silhouettePaths, filteredRegions,
          innerPaths, dispatch, result, rmask, regions, skeleton, chains, dropped,
          poly, epsilon, simplified, gray, rebin, kind, once, twice,
          build, status, appImage, imageElement, appResult, error, showPreview,
          loads, tasks, previewOf, isGenerating, previews,
          defaults, handed, suggested, connected, variant, contours, walks>>

-----------------------------------------------------------------------------
(* Program constants *)

padding == 10
dilateAmount == 4
threshold == 180
alphaMin == 50
noiseThreshold == 15
wSize == 3
maxSteps == 20000
closeOutline == 20
closeCenterline == 5

OUTLINE == "outline"
CENTERLINE == "centerline"

\* least common multiple of the window counts 2 and 3 of the moving average
Scale == 2 * 3

defaultParams == [detailLevel |-> 50, centerlineSensitivity |-> 50, smoothingLevel |-> 3]

-----------------------------------------------------------------------------
(* Small helpers *)

Max(a, b) == IF a >= b THEN a ELSE b
Min(a, b) == IF a <= b THEN a ELSE b
Abs(a) == IF a >= 0 THEN a ELSE -a

Idx(x, y, w) == y * w + x
PX(i, w) == i % w
PY(i, w) == i \div w

InGrid(x, y, w, h) == x >= 0 /\ x < w /\ y >= 0 /\ y < h

\* TRUE of every loop state (a record); testing it evaluates the state
Ready(s) == DOMAIN s # {}

\* Loops are unrolled in blocks: Run(s, q) is the state that at most q further
\* iterations of a loop lead to from s (s itself once the loop has ended), and
\* Chain16(Run, s, q) is the state after at most 16 * q iterations.  The
\* intermediate states are evaluated one after the other, which keeps the
\* depth of evaluation logarithmic in the number of iterations.
Chain16(Run(_, _), s, q) ==
  LET a1 == Run(s, q)
      a2 == Run(a1, q)
      a3 == Run(a2, q)
      a4 == Run(a3, q)
      a5 == Run(a4, q)
      a6 == Run(a5, q)
      a7 == Run(a6, q)
      a8 == Run(a7, q)
      a9 == Run(a8, q)
      a10 == Run(a9, q)
      a11 == Run(a10, q)
      a12 == Run(a11, q)
      a13 == Run(a12, q)
      a14 == Run(a13, q)
      a15 == Run(a14, q)
  IN IF <<Ready(a1), Ready(a2), Ready(a3), Ready(a4), Ready(a5), Ready(a6), Ready(a7),
          Ready(a8), Ready(a9), Ready(a10), Ready(a11), Ready(a12), Ready(a13),
          Ready(a14), Ready(a15)>> # <<>>
     THEN Run(a15, q)
     ELSE s

\* the set S itself, enumerated once: TLC then keeps it sorted and answers the
\* membership tests of a scan by binary search
Packed(S) == {i \in S : TRUE}


-----------------------------------------------------------------------------
(* Canvas: the image drawn at (padding, padding) on a white canvas *)

White == <<255, 255, 255, 255>>
Black == <<0, 0, 0, 255>>

canvasW(img) == img.W + padding * 2
canvasH(img) == img.H + padding * 2

\* a canvas whose fill leaves a black sample at cell 0
imageDataSpeck(img, i) ==
  LET w == canvasW(img)
      x == PX(i, w) - padding
      y == PY(i, w) - padding
  IN IF i = 0 \/ <<x, y>> \in img.black THEN Black ELSE White

\* getImageData: the RGBA sample of canvas cell i
imageData(img, i) ==
  LET w == canvasW(img)
      x == PX(i, w) - padding
      y == PY(i, w) - padding
  IN IF <<x, y>> \in img.black THEN Black ELSE White

\* luminance times 1000: 0.299 R + 0.587 G + 0.114 B
Lum1000(p) == 299 * p[1] + 587 * p[2] + 114 * p[3]

\* a binarizer that takes the light pixels as foreground
toBinaryCellLight(p, th) ==
  IF p[4] < alphaMin THEN 0
  ELSE IF Lum1000(p) < th * 1000 THEN 0 ELSE 1

toBinaryCell(p, th) ==
  IF p[4] < alphaMin THEN 0
  ELSE IF Lum1000(p) < th * 1000 THEN 1 ELSE 0

\* toBinary on the samples data[0], ..., data[w * h - 1]
toBinaryData(data, w, h, th) ==
  {i \in 0..(w * h - 1) : toBinaryCell(data[i], th) = 1}

toBinary(img, w, h, th) ==
  {i \in 0..(w * h - 1) : toBinaryCell(imageData(img, i), th) = 1}

-----------------------------------------------------------------------------
(* Morphology *)

\* one pass of dilateMask's k loop: every 1 cell sets itself and its N/S/E/W cells
dilatePass(curr, w, h) ==
  {i \in 0..(w * h - 1) :
     \/ i \in curr
     \/ PX(i, w) > 0 /\ (i - 1) \in curr
     \/ PX(i, w) < w - 1 /\ (i + 1) \in curr
     \/ PY(i, w) > 0 /\ (i - w) \in curr
     \/ PY(i, w) < h - 1 /\ (i + w) \in curr}

RECURSIVE dilateMask(_, _, _, _)
dilateMask(mask, w, h, r) ==
  IF r = 0 THEN mask ELSE dilatePass(dilateMask(mask, w, h, r - 1), w, h)

Neighbors4(i, w, h) ==
  (IF PX(i, w) < w - 1 THEN {i + 1} ELSE {}) \cup
  (IF PX(i, w) > 0 THEN {i - 1} ELSE {}) \cup
  (IF PY(i, w) < h - 1 THEN {i + w} ELSE {}) \cup
  (IF PY(i, w) > 0 THEN {i - w} ELSE {})

\* One round of floodFillBackground's stack loop taken for a whole frontier:
\* the cells reached do not depend on the order in which the stack is popped.
\* A neighbour of the frontier that was visited earlier lies in the frontier
\* itself or in the one before it, so these two stand for the visited array.
floodRound(binary, w, h, s) ==
  LET next == {n \in UNION {Neighbors4(i, w, h) : i \in s.frontier} :
                 n \notin s.frontier /\ n \notin s.prev /\ n \notin binary}
  IN [layers |-> Append(s.layers, next), prev |-> s.frontier, frontier |-> next]

RECURSIVE floodLoop(_, _, _, _, _)
floodLoop(binary, w, h, s, n) ==
  IF s.frontier = {} THEN s
  ELSE IF n <= 1 THEN floodRound(binary, w, h, s)
  ELSE Chain16(LAMBDA x, m : floodLoop(binary, w, h, x, m), s, (n + 15) \div 16)

\* mask[i] = 1 for (0,0) and every 0 cell 4-connected to it through 0 cells
floodFillBackground(binary, w, h) ==
  LET s == floodLoop(binary, w, h,
                     [layers |-> << {0} >>, prev |-> {}, frontier |-> {0}], w * h)
  IN Packed(UNION {s.layers[k] : k \in DOMAIN s.layers})

invertMask(m, w, h) == {i \in 0..(w * h - 1) : i \notin m}

\* the scan i = lo .. hi of maskToRegion, split in halves so that the
\* evaluation depth stays logarithmic: the 1 cells in increasing index order
RECURSIVE maskPixels(_, _, _, _)
maskPixels(mask, w, lo, hi) ==
  IF lo > hi THEN <<>>
  ELSE IF lo = hi THEN (IF lo \in mask THEN << <<PX(lo, w), PY(lo, w)>> >> ELSE <<>>)
  ELSE LET mid == (lo + hi) \div 2
       IN maskPixels(mask, w, lo, mid) \o maskPixels(mask, w, mid + 1, hi)

maskToRegion(mask, w, h) ==
  LET pixels == maskPixels(mask, w, 0, w * h - 1)
  IN [pixels |-> pixels, avgWidthNum |-> 0, avgWidthDen |-> 1, area |-> Len(pixels)]

-----------------------------------------------------------------------------
(* Region finder *)

\* the neighbour list with its last entry naming the popped cell instead of
\* the cell above it
ns4NoNorth(x, y) == << <<x + 1, y>>, <<x - 1, y>>, <<x, y + 1>>, <<x, y>> >>

\* the neighbours of (x, y) in floodFill's order: E, W, S, N
ns4(x, y) == << <<x + 1, y>>, <<x - 1, y>>, <<x, y + 1>>, <<x, y - 1>> >>

\* bin[idx] === 1 && vis[idx] === 0 for a neighbour c inside the grid
unvisited(bin, vis, w, h, c) ==
  /\ InGrid(c[1], c[2], w, h)
  /\ Idx(c[1], c[2], w) \in bin
  /\ Idx(c[1], c[2], w) \notin vis

\* the state after popping top and pushing the cells of push
floodFillPop(s, top, push, w) ==
  [stack |-> SubSeq(s.stack, 1, Len(s.stack) - 1) \o push,
   vis |-> s.vis \cup {Idx(push[k][1], push[k][2], w) : k \in DOMAIN push},
   pixels |-> Append(s.pixels, top),
   minX |-> Min(s.minX, top[1]), maxX |-> Max(s.maxX, top[1]),
   minY |-> Min(s.minY, top[2]), maxY |-> Max(s.maxY, top[2])]

\* the unvisited foreground cells among the neighbours ns, in their order
floodFillPush(bin, w, h, s, ns) ==
  SelectSeq(ns, LAMBDA c : unvisited(bin, s.vis, w, h, c))

floodFillFrom(bin, w, h, s, top) ==
  floodFillPop(s, top, floodFillPush(bin, w, h, s, ns4(top[1], top[2])), w)

\* one iteration of floodFill's while loop: pop, record, push the unvisited
\* foreground neighbours (marked visited when pushed)
floodFillStep(bin, w, h, s) == floodFillFrom(bin, w, h, s, s.stack[Len(s.stack)])

RECURSIVE floodFillLoop(_, _, _, _, _)
floodFillLoop(bin, w, h, s, n) ==
  IF s.stack = <<>> THEN s
  ELSE IF n <= 1 THEN floodFillStep(bin, w, h, s)
  ELSE Chain16(LAMBDA x, m : floodFillLoop(bin, w, h, x, m), s, (n + 15) \div 16)

\* avgWidth = area / max(bounds width, bounds height) * 2 is kept as the
\* fraction avgWidthNum / avgWidthDen
regionOf(s) ==
  [region |-> [pixels |-> s.pixels, area |-> Len(s.pixels),
               avgWidthNum |-> Len(s.pixels) * 2,
               avgWidthDen |-> Max(s.maxX - s.minX + 1, s.maxY - s.minY + 1),
               bounds |-> [minX |-> s.minX, maxX |-> s.maxX,
                           minY |-> s.minY, maxY |-> s.maxY]],
   vis |-> s.vis]

floodFill(bin, vis, sx, sy, w, h) ==
  regionOf(floodFillLoop(bin, w, h,
             [stack |-> << <<sx, sy>> >>, vis |-> vis \cup {Idx(sx, sy, w)},
              pixels |-> <<>>, minX |-> sx, maxX |-> sx, minY |-> sy, maxY |-> sy],
             w * h))

\* if (r.pixels.length > 0) regions.push(r), with the visited array floodFill marked
pushRegion(s, r) ==
  [i |-> s.i + 1,
   visited |-> r.vis,
   regions |-> IF Len(r.region.pixels) > 0 THEN Append(s.regions, r.region)
               ELSE s.regions]

\* one iteration of identifyRegions' scan: the cell s.i, in row-major order
identifyCell(binary, w, h, s) ==
  IF s.i \in binary /\ s.i \notin s.visited
  THEN pushRegion(s, floodFill(binary, s.visited, PX(s.i, w), PY(s.i, w), w, h))
  ELSE [s EXCEPT !.i = s.i + 1]

RECURSIVE identifyScan(_, _, _, _, _)
identifyScan(binary, w, h, s, n) ==
  IF s.i >= w * h THEN s
  ELSE IF n <= 1 THEN identifyCell(binary, w, h, s)
  ELSE Chain16(LAMBDA x, m : identifyScan(binary, w, h, x, m), s, (n + 15) \div 16)

identifyRegions(binary, w, h) ==
  identifyScan(binary, w, h, [i |-> 0, visited |-> {}, regions |-> <<>>], w * h).regions

-----------------------------------------------------------------------------
(* Contour tracer (Moore boundary walk) *)

dirs == << <<0, -1>>, <<1, -1>>, <<1, 0>>, <<1, 1>>, <<0, 1>>, <<-1, 1>>, <<-1, 0>>, <<-1, -1>> >>

isBorder(px, py, bin, w, h) ==
  \/ px = 0 \/ px = w - 1 \/ py = 0 \/ py = h - 1
  \/ Idx(px, py, w) - 1 \notin bin
  \/ Idx(px, py, w) + 1 \notin bin
  \/ Idx(px, py - 1, w) \notin bin
  \/ Idx(px, py + 1, w) \notin bin

\* the cell probed at offset i of the for loop: direction d = (off + i) % 8
\* with off = (cdir + 5) % 8
probe(s, i) ==
  <<s.cx + dirs[((s.cdir + 5 + i) % 8) + 1][1], s.cy + dirs[((s.cdir + 5 + i) % 8) + 1][2]>>

foreground(bin, w, h, c) == InGrid(c[1], c[2], w, h) /\ Idx(c[1], c[2], w) \in bin

\* the offsets i of the for loop whose probed cell is a foreground cell
hits(bin, w, h, s) == {i \in 0..7 : foreground(bin, w, h, probe(s, i))}

\* a walk that goes on past its start pixel, up to the step limit
walkToLimit(startX, startY, s, d, nx, ny) ==
  [cx |-> nx, cy |-> ny, cdir |-> d, steps |-> s.steps + 1,
   contour |-> Append(s.contour, <<s.cx, s.cy>>),
   run |-> s.steps + 1 < maxSteps]

\* the move to (nx, ny) in direction d; run is the loop condition
walkTo(startX, startY, s, d, nx, ny) ==
  [cx |-> nx, cy |-> ny, cdir |-> d, steps |-> s.steps + 1,
   contour |-> Append(s.contour, <<s.cx, s.cy>>),
   run |-> (nx # startX \/ ny # startY) /\ s.steps + 1 < maxSteps]

walkDir(startX, startY, s, d) ==
  walkTo(startX, startY, s, d, s.cx + dirs[d + 1][1], s.cy + dirs[d + 1][2])

\* the first hit in the order of the for loop, or the break when there is none
walkFirst(startX, startY, s, hit) ==
  IF hit = {}
  THEN [s EXCEPT !.contour = Append(s.contour, <<s.cx, s.cy>>), !.run = FALSE]
  ELSE walkDir(startX, startY, s,
               (s.cdir + 5 + (CHOOSE a \in hit : \A b \in hit : a <= b)) % 8)

\* one iteration of the do-while walk
walkStep(bin, w, h, startX, startY, s) ==
  walkFirst(startX, startY, s, hits(bin, w, h, s))

RECURSIVE walkLoop(_, _, _, _, _, _, _)
walkLoop(bin, w, h, startX, startY, s, n) ==
  IF ~s.run THEN s
  ELSE IF n <= 1 THEN walkStep(bin, w, h, startX, startY, s)
  ELSE Chain16(LAMBDA x, m : walkLoop(bin, w, h, startX, startY, x, m), s, (n + 15) \div 16)

\* a contour kept only if it is longer than the single pixel's silhouette
keepContourLong(contour) == Len(contour) > 4 * dilateAmount

\* if (contour.length > 2) paths.push(contour)
keepContour(contour) == Len(contour) > 2

\* the walk is over: its cells are marked in localVis and its contour is kept
\* if (contour.length > 2)
pushContour(s, contour, w) ==
  [k |-> s.k + 1,
   localVis |-> Packed(s.localVis \cup
                  {Idx(contour[j][1], contour[j][2], w) : j \in DOMAIN contour}),
   paths |-> IF keepContour(contour) THEN Append(s.paths, contour) ELSE s.paths]

\* the walk as the do-while loop leaves it: where it stands and the steps made
walkEnd(s) == [cx |-> s.cx, cy |-> s.cy, steps |-> s.steps, contour |-> s.contour]

traceAt(bin, w, h, s, px, py) ==
  IF Idx(px, py, w) \in s.localVis \/ ~isBorder(px, py, bin, w, h)
  THEN [s EXCEPT !.k = s.k + 1]
  ELSE pushContour(s, walkLoop(bin, w, h, px, py,
                               [cx |-> px, cy |-> py, cdir |-> 7, steps |-> 0,
                                contour |-> <<>>, run |-> TRUE],
                               maxSteps).contour, w)

\* one iteration of traceContour's loop: the region pixel s.k
traceFrom(pixels, bin, w, h, s) ==
  traceAt(bin, w, h, s, pixels[s.k][1], pixels[s.k][2])

RECURSIVE traceScan(_, _, _, _, _, _)
traceScan(pixels, bin, w, h, s, n) ==
  IF s.k > Len(pixels) THEN s
  ELSE IF n <= 1 THEN traceFrom(pixels, bin, w, h, s)
  ELSE Chain16(LAMBDA x, m : traceScan(pixels, bin, w, h, x, m), s, (n + 15) \div 16)

traceContour(region, bin, w, h) ==
  traceScan(region.pixels, bin, w, h, [k |-> 1, localVis |-> {}, paths |-> <<>>],
            Len(region.pixels)).paths

\* the region pixels from s.k on at which the loop of traceContour starts a
\* walk: on no contour made so far (localVis) and border pixels
starts(region, bin, w, h, s) ==
  {k \in s.k..Len(region.pixels) :
     /\ Idx(region.pixels[k][1], region.pixels[k][2], w) \notin s.localVis
     /\ isBorder(region.pixels[k][1], region.pixels[k][2], bin, w, h)}

\* the walk from (px, py), as the do-while loop leaves it
walkFrom(bin, w, h, px, py) ==
  walkEnd(walkLoop(bin, w, h, px, py,
                   [cx |-> px, cy |-> py, cdir |-> 7, steps |-> 0,
                    contour |-> <<>>, run |-> TRUE],
                   maxSteps))

\* the walk is over: its cells are marked in localVis, the loop goes on
walked(s, k, end, w) ==
  [k |-> k + 1,
   localVis |-> s.localVis \cup
      {Idx(end.contour[j][1], end.contour[j][2], w) : j \in DOMAIN end.contour},
   walks |-> Append(s.walks, end)]

\* if (contour.length > 2) paths.push(contour): the polygons traceContour
\* returns, from the walks it made
keptContours(ws) ==
  [j \in DOMAIN SelectSeq(ws, LAMBDA e : keepContour(e.contour)) |->
     SelectSeq(ws, LAMBDA e : keepContour(e.contour))[j].contour]

\* the walks traceContour makes for a region, in the order of its loop
RECURSIVE contourWalks(_, _, _, _, _)
contourWalks(region, bin, w, h, s) ==
  LET from == starts(region, bin, w, h, s)
      k == CHOOSE a \in from : \A b \in from : a <= b
  IN IF from = {} THEN s.walks
     ELSE contourWalks(region, bin, w, h,
            walked(s, k, walkFrom(bin, w, h, region.pixels[k][1], region.pixels[k][2]), w))

-----------------------------------------------------------------------------
(* Path optimizer *)

\* window-3 moving average of point i, in 1/Scale pixel
smoothPoint(p, i) ==
  LET js == {j \in (i - 1)..(i + 1) : j >= 1 /\ j <= Len(p)}
      c == Cardinality(js)
      sx == IF i > 1 THEN p[i - 1][1] ELSE 0
      sy == IF i > 1 THEN p[i - 1][2] ELSE 0
      tx == IF i < Len(p) THEN p[i + 1][1] ELSE 0
      ty == IF i < Len(p) THEN p[i + 1][2] ELSE 0
  IN <<(sx + p[i][1] + tx) * (Scale \div c), (sy + p[i][2] + ty) * (Scale \div c)>>

DistSq(a, b) == (a[1] - b[1]) * (a[1] - b[1]) + (a[2] - b[2]) * (a[2] - b[2])

\* d < 20 for an outline, d < 5 for a centerline, on the squared distance of
\* points given in 1/u pixel
closes(type, d2, u) ==
  IF type = OUTLINE THEN d2 < closeOutline * closeOutline * u * u
  ELSE d2 < closeCenterline * closeCenterline * u * u

\* if (closed) p[p.length - 1] = [st[0], st[1]], and the returned path
closeWith(p, type, closed) ==
  [points |-> IF closed THEN [p EXCEPT ![Len(p)] = p[1]] ELSE p,
   isClosed |-> closed, area |-> 0, pathType |-> type]

closePath(p, type, d2, u) == closeWith(p, type, closes(type, d2, u))

measurePath(p, type, u) == closePath(p, type, DistSq(p[1], p[Len(p)]), u)

\* optimizePath on points given in 1/u pixel; the result is <<>> for null and
\* <<path>> otherwise, with its points in 1/(u * Scale) pixel
optimizeUnits(path, prm, type, u) ==
  IF Len(path) < 2 THEN <<>>
  ELSE << measurePath(IF Len(path) > wSize
                      THEN [i \in 1..Len(path) |-> smoothPoint(path, i)]
                      ELSE [i \in 1..Len(path) |-> <<path[i][1] * Scale, path[i][2] * Scale>>],
                      type, u * Scale) >>

\* optimizePath on points in pixels
optimizePath(path, prm, type) == optimizeUnits(path, prm, type, 1)

\* the shoelace sum over points lo..hi (the successor of the last point is the first)
RECURSIVE shoelace(_, _, _)
shoelace(pts, lo, hi) ==
  IF lo > hi THEN 0
  ELSE IF lo = hi
  THEN LET j == (lo % Len(pts)) + 1
       IN pts[lo][1] * pts[j][2] - pts[lo][2] * pts[j][1]
  ELSE LET mid == (lo + hi) \div 2
       IN shoelace(pts, lo, mid) + shoelace(pts, mid + 1, hi)

\* twice the polygon area, Math.abs(a): the division by 2 is left out
calcPolyArea(pts) == Abs(shoelace(pts, 1, Len(pts)))

-----------------------------------------------------------------------------
(* Skeletonizer (Zhang-Suen) and skeleton tracer *)

extractRegionBinary(r, fullBin, w, h) ==
  {Idx(r.pixels[k][1], r.pixels[k][2], w) : k \in 1..Len(r.pixels)}

g(arr, x, y, w) == IF Idx(x, y, w) \in arr THEN 1 ELSE 0

\* the deletion test of sub-iteration s at the foreground cell i
zsDeletable(skel, w, i, s) ==
  LET x == PX(i, w)
      y == PY(i, w)
      p2 == g(skel, x, y - 1, w)
      p3 == g(skel, x + 1, y - 1, w)
      p4 == g(skel, x + 1, y, w)
      p5 == g(skel, x + 1, y + 1, w)
      p6 == g(skel, x, y + 1, w)
      p7 == g(skel, x - 1, y + 1, w)
      p8 == g(skel, x - 1, y, w)
      p9 == g(skel, x - 1, y - 1, w)
      B == p2 + p3 + p4 + p5 + p6 + p7 + p8 + p9
      T(a, b) == IF a = 0 /\ b = 1 THEN 1 ELSE 0
      A == T(p2, p3) + T(p3, p4) + T(p4, p5) + T(p5, p6)
           + T(p6, p7) + T(p7, p8) + T(p8, p9) + T(p9, p2)
      m1 == IF s = 1 THEN p2 * p4 * p6 ELSE p2 * p4 * p8
      m2 == IF s = 1 THEN p4 * p6 * p8 ELSE p2 * p6 * p8
  IN B >= 2 /\ B <= 6 /\ A = 1 /\ m1 = 0 /\ m2 = 0

\* del of sub-iteration s: the border rows and columns are never examined
zsDel(skel, w, h, s) ==
  {i \in skel : /\ PX(i, w) >= 1 /\ PX(i, w) < w - 1
                /\ PY(i, w) >= 1 /\ PY(i, w) < h - 1
                /\ zsDeletable(skel, w, i, s)}

\* if (del.length > 0) { changed = true; for (const d of del) skel[d] = 0; }
\* after sub-iteration 2
zsSecond(s1, d1, d2) == [skel |-> s1 \ d2, changed |-> d1 # {} \/ d2 # {}]

zsFirst(s1, d1, w, h) == zsSecond(s1, d1, zsDel(s1, w, h, 2))

zsSub(skel, d1, w, h) == zsFirst(skel \ d1, d1, w, h)

\* one iteration of the while loop: sub-iteration 1, then 2
zsRound(st, w, h) == zsSub(st.skel, zsDel(st.skel, w, h, 1), w, h)

RECURSIVE zsLoop(_, _, _, _)
zsLoop(w, h, s, n) ==
  IF ~s.changed THEN s
  ELSE IF n <= 1 THEN zsRound(s, w, h)
  ELSE Chain16(LAMBDA x, m : zsLoop(w, h, x, m), s, (n + 15) \div 16)

zhangSuen(bin, w, h) ==
  zsLoop(w, h, [skel |-> bin, changed |-> TRUE], Cardinality(bin) + 1).skel

\* the neighbour k of (cx, cy) in the order N, NE, E, SE, S, SW, W, NW
around(cx, cy, k) == <<cx + dirs[k][1], cy + dirs[k][2]>>

\* the state after popping (cx, cy) and pushing the first neighbour of hit
chainPush(s, cx, cy, vis, hit) ==
  [stack |-> IF hit = {} THEN <<>>
             ELSE << around(cx, cy, CHOOSE a \in hit : \A b \in hit : a <= b) >>,
   path |-> Append(s.path, <<cx, cy>>),
   vis |-> vis]

chainMark(skel, w, h, s, cx, cy, vis) ==
  chainPush(s, cx, cy, vis,
            {k \in 1..8 : /\ foreground(skel, w, h, around(cx, cy, k))
                          /\ Idx(around(cx, cy, k)[1], around(cx, cy, k)[2], w) \notin vis})

chainPop(skel, w, h, s, cx, cy) ==
  chainMark(skel, w, h, s, cx, cy, s.vis \cup {Idx(cx, cy, w)})

\* one iteration of traceSkeleton's stack loop: pop, record, mark, push the
\* first unvisited skeleton neighbour
chainStep(skel, w, h, s) == chainPop(skel, w, h, s, s.stack[1][1], s.stack[1][2])

RECURSIVE chainLoop(_, _, _, _, _)
chainLoop(skel, w, h, s, n) ==
  IF s.stack = <<>> THEN s
  ELSE IF n <= 1 THEN chainStep(skel, w, h, s)
  ELSE Chain16(LAMBDA x, m : chainLoop(skel, w, h, x, m), s, (n + 15) \div 16)

\* a filter that also drops the chains of three pixels
keepChainLonger(path) == Len(path) > 3

\* if (path.length > 2)
keepChain(path) == Len(path) > 2

\* if (path.length > 2) paths.push(path), with the cells the chain marked;
\* short collects the chains the test drops (they are not part of the result)
pushChain(s, e) ==
  [i |-> s.i + 1,
   vis |-> e.vis,
   paths |-> IF keepChain(e.path) THEN Append(s.paths, e.path) ELSE s.paths,
   short |-> IF keepChain(e.path) THEN s.short ELSE Append(s.short, e.path)]

\* one iteration of traceSkeleton's scan: the cell s.i, in row-major order
skeletonCell(skel, w, h, s) ==
  IF s.i \in skel /\ s.i \notin s.vis
  THEN pushChain(s, chainLoop(skel, w, h,
                              [stack |-> << <<PX(s.i, w), PY(s.i, w)>> >>,
                               path |-> <<>>, vis |-> s.vis],
                              Cardinality(skel)))
  ELSE [s EXCEPT !.i = s.i + 1]

RECURSIVE skeletonScan(_, _, _, _, _)
skeletonScan(skel, w, h, s, n) ==
  IF s.i >= w * h THEN s
  ELSE IF n <= 1 THEN skeletonCell(skel, w, h, s)
  ELSE Chain16(LAMBDA x, m : skeletonScan(skel, w, h, x, m), s, (n + 15) \div 16)

traceSkeleton(skel, w, h) ==
  skeletonScan(skel, w, h, [i |-> 0, vis |-> {}, paths |-> <<>>, short |-> <<>>],
               w * h).paths

\* the chains traceSkeleton starts and then drops for their length
droppedChains(skel, w, h) ==
  skeletonScan(skel, w, h, [i |-> 0, vis |-> {}, paths |-> <<>>, short |-> <<>>],
               w * h).short

-----------------------------------------------------------------------------
(* Vector emitter *)

\* Number.toFixed(2) of num / den (den > 0), in hundredths
toFixed2(num, den) ==
  LET a == Abs(num)
      q == (2 * a * 100 + den) \div (2 * den)
  IN IF num >= 0 THEN q ELSE -q

svgPath(p, pad) ==
  [d |-> [i \in 1..Len(p.points) |->
            <<toFixed2(p.points[i][1] - pad * Scale, Scale),
              toFixed2(p.points[i][2] - pad * Scale, Scale)>>],
   Z |-> p.isClosed,
   stroke |-> IF p.pathType = OUTLINE THEN "#00ff00" ELSE "#0000ff"]

\* 3.7795 px per mm, written as 37795 / 10000
generateSVG(paths, w, h, pad) ==
  [widthMm |-> toFixed2(w * 10000, 37795),
   heightMm |-> toFixed2(h * 10000, 37795),
   viewBox |-> <<0, 0, w - pad * 2, h - pad * 2>>,
   paths |-> [k \in 1..Len(paths) |-> svgPath(paths[k], pad)]]

-----------------------------------------------------------------------------
(* Pipeline orchestrator: the stages of processWithParams *)

RECURSIVE Flatten(_, _, _)
Flatten(ss, lo, hi) ==
  IF lo > hi THEN <<>>
  ELSE IF lo = hi THEN ss[lo]
  ELSE LET mid == (lo + hi) \div 2
       IN Flatten(ss, lo, mid) \o Flatten(ss, mid + 1, hi)

\* the selection that keeps the first contour without comparing areas
bestPathFirst(raw) == IF raw = <<>> THEN <<>> ELSE << raw[1] >>

\* the first contour of the largest area, if that area is not 0
largest(raw, areas) ==
  LET top == {k \in 1..Len(raw) : areas[k] > 0 /\ \A j \in 1..Len(raw) : areas[j] <= areas[k]}
  IN IF top = {} THEN <<>>
     ELSE << raw[CHOOSE k \in top : \A j \in top : k <= j] >>

\* the loop "if (area > maxArea) { maxArea = area; bestPath = p }" from
\* maxArea = 0
bestPath(raw) == largest(raw, [k \in 1..Len(raw) |-> calcPolyArea(raw[k])])

\* if (opt) { opt.isClosed = true; silhouettePaths.push(opt); }
forceClosed(opt) == IF opt # <<>> THEN << [opt[1] EXCEPT !.isClosed = TRUE] >> ELSE <<>>

\* if (bestPath) { ... }
silhouetteOf(best, prm) ==
  IF best # <<>> THEN forceClosed(optimizePath(best[1], prm, OUTLINE)) ELSE <<>>

\* if (silhouetteRegion.pixels.length > 0) { ... }
silhouetteFrom(silhouetteRegion, silhouetteMask, w, h, prm) ==
  IF Len(silhouetteRegion.pixels) > 0
  THEN silhouetteOf(bestPath(traceContour(silhouetteRegion, silhouetteMask, w, h)), prm)
  ELSE <<>>

silhouetteIn(silhouetteMask, w, h, prm) ==
  silhouetteFrom(maskToRegion(silhouetteMask, w, h), silhouetteMask, w, h, prm)

\* STEP 1: SILHOUETTE
silhouetteStage(binary, w, h, prm) ==
  silhouetteIn(invertMask(floodFillBackground(dilateMask(binary, w, h, dilateAmount),
                                              w, h), w, h),
               w, h, prm)

\* validRegions.sort((a, b) => b.area - a.area): stable, descending area
sortByArea(rs) ==
  LET rank(i) == Cardinality({j \in 1..Len(rs) :
                     \/ rs[j].area > rs[i].area
                     \/ rs[j].area = rs[i].area /\ j < i}) + 1
  IN [k \in 1..Len(rs) |-> rs[CHOOSE i \in 1..Len(rs) : rank(i) = k]]

noiseFilter(rs) == SelectSeq(rs, LAMBDA r : r.area > noiseThreshold)

normalizedDetail(prm) == Min(100, Max(1, prm.detailLevel))

\* the cutoff with factor (nd / 100)^3, which grows with the detail level
aboveCutoffRising(area, maxArea, nd) ==
  LET c == maxArea * nd * nd * nd
      q == c \div 1000000
  IN area * 50 >= (IF c % 1000000 = 0 THEN q ELSE q + 1)

\* r.area >= areaCutoff, areaCutoff = maxArea * ((100 - nd) / 100)^3 * 0.02:
\* area * 50 >= maxArea * (100 - nd)^3 / 10^6, in integers (the product stays
\* within 32 bits for the regions of the images run with the detail stage on)
aboveCutoff(area, maxArea, nd) ==
  LET c == maxArea * (100 - nd) * (100 - nd) * (100 - nd)
      q == c \div 1000000
  IN area * 50 >= (IF c % 1000000 = 0 THEN q ELSE q + 1)

\* the threshold without the factor 100: 2 + sens * 3 / 100
fillThUnscaled(prm) == 2 + (prm.centerlineSensitivity * 3) \div 100

\* fillTh = 2 + (sens / 100) * 300
fillTh(prm) == 2 + prm.centerlineSensitivity * 3

\* the sign of the rounding error of the double 2 + (sens / 100) * 300 against
\* 2 + 3 * sens: the double is 124.99999999999999 for sens = 41 and
\* 23.000000000000004 for sens = 7, and exact for 0, 1, 50 and 100
fillThRounding(prm) ==
  IF prm.centerlineSensitivity \in {41, 57, 69, 82} THEN -1
  ELSE IF prm.centerlineSensitivity \in {7, 14, 17, 28, 34, 56, 68, 81} THEN 1
  ELSE 0

\* r.avgWidth > fillTh on doubles: avgWidth = area / max * 2 is exact when it
\* is an integer, and a rounding error of fillTh decides the comparison only
\* when avgWidth is exactly 2 + 3 * sens
useOutline(r, prm) ==
  IF r.avgWidthNum = fillTh(prm) * r.avgWidthDen
  THEN fillThRounding(prm) < 0
  ELSE r.avgWidthNum > fillTh(prm) * r.avgWidthDen

\* validRegions.filter(r => r.area >= areaCutoff)
cutoffFilter(validRegions, prm) ==
  SelectSeq(validRegions,
            LAMBDA r : aboveCutoff(r.area, validRegions[1].area, normalizedDetail(prm)))

filterRegions(binary, w, h, prm) ==
  cutoffFilter(sortByArea(noiseFilter(identifyRegions(binary, w, h))), prm)

\* paths.forEach(p => { const opt = optimizePath(p, ...); if (opt) innerPaths.push(opt) })
optimizeAll(paths, prm, type) ==
  Flatten([k \in 1..Len(paths) |-> optimizePath(paths[k], prm, type)], 1, Len(paths))

regionPaths(r, binary, w, h, prm) ==
  IF useOutline(r, prm)
  THEN optimizeAll(traceContour(r, binary, w, h), prm, OUTLINE)
  ELSE optimizeAll(traceSkeleton(zhangSuen(extractRegionBinary(r, binary, w, h), w, h), w, h),
                   prm, CENTERLINE)

\* innerPaths and, per region, the branch taken
collect(rs, per, prm) ==
  [paths |-> Flatten(per, 1, Len(per)),
   kinds |-> [k \in 1..Len(rs) |->
                [area |-> rs[k].area,
                 avgWidthNum |-> rs[k].avgWidthNum,
                 avgWidthDen |-> rs[k].avgWidthDen,
                 useOutline |-> useOutline(rs[k], prm),
                 count |-> Len(per[k])]]]

\* the loop over filteredRegions
tracePaths(rs, binary, w, h, prm) ==
  collect(rs, [k \in 1..Len(rs) |-> regionPaths(rs[k], binary, w, h, prm)], prm)

\* the guard taken on the other parameter
detailEnabledBySensitivity(prm) == prm.centerlineSensitivity > 0

\* if (params.detailLevel > 0) { ... }
detailEnabled(prm) == prm.detailLevel > 0

\* the regions STEP 2 keeps: none when the detail stage is off
keptRegions(binary, w, h, prm) ==
  IF detailEnabled(prm) THEN filterRegions(binary, w, h, prm) ELSE <<>>

\* STEP 2: DETAILS
detailStage(binary, w, h, prm) ==
  tracePaths(keptRegions(binary, w, h, prm), binary, w, h, prm)

\* a cut layer that holds the silhouette only
cutLayerSilhouette(sil, inner) == sil

\* cutPaths = [...silhouettePaths, ...innerPaths.filter(OUTLINE)]
cutLayer(sil, inner) == sil \o SelectSeq(inner, LAMBDA p : p.pathType = OUTLINE)

\* the engrave layer taken without the filter on the path kind
engraveLayerAll(inner) == inner

\* engravePaths = innerPaths.filter(CENTERLINE)
engraveLayer(inner) == SelectSeq(inner, LAMBDA p : p.pathType = CENTERLINE)

\* allPaths = [...silhouettePaths, ...innerPaths]
fullLayer(sil, inner) == sil \o inner

\* STEP 3: LAYERS, statistics and the three documents
layerStage(sil, inner, w, h) ==
  LET cutPaths == cutLayer(sil, inner)
      engravePaths == engraveLayer(inner)
      allPaths == fullLayer(sil, inner)
  IN [cutPaths |-> cutPaths, engravePaths |-> engravePaths, allPaths |-> allPaths,
      svgContent |-> generateSVG(allPaths, w, h, padding),
      svgCut |-> generateSVG(cutPaths, w, h, padding),
      svgEngrave |-> generateSVG(engravePaths, w, h, padding),
      stats |-> [centerlineCount |-> Len(engravePaths),
                 outlineCount |-> Len(sil)
                    + Len(SelectSeq(inner, LAMBDA p : p.pathType = OUTLINE)),
                 gapsDetected |-> 0,
                 totalPaths |-> Len(allPaths)],
      pathCount |-> Len(allPaths),
      originalSize |-> w * h * 4,
      outputSize |-> 0]

-----------------------------------------------------------------------------
(* Polyline simplifier (Ramer-Douglas-Peucker).  A distance is kept as its   *)
(* square, the fraction num / den.                                           *)

\* dist(p1, p2), squared
dist(p1, p2) ==
  [num |-> (p1[1] - p2[1]) * (p1[1] - p2[1]) + (p1[2] - p2[2]) * (p1[2] - p2[2]),
   den |-> 1]

\* numerator / denominator, squared
ratio(numerator, denominatorSq) ==
  [num |-> numerator * numerator, den |-> denominatorSq]

\* denominator === 0 ? dist(p, p1) : numerator / denominator
perpendicularDistance(p, p1, p2) ==
  IF (p2[2] - p1[2]) * (p2[2] - p1[2]) + (p2[1] - p1[1]) * (p2[1] - p1[1]) = 0
  THEN dist(p, p1)
  ELSE ratio(Abs((p2[2] - p1[2]) * p[1] - (p2[1] - p1[1]) * p[2]
                 + p2[1] * p1[2] - p2[2] * p1[1]),
             (p2[2] - p1[2]) * (p2[2] - p1[2]) + (p2[1] - p1[1]) * (p2[1] - p1[1]))

\* a > b for two non-negative distances given by their squares
Farther(a, b) == a.num * b.den > b.num * a.den

\* d > dmax
farther(d, st) == Farther(d, st.dmax)

\* if (d > dmax) { index = i; dmax = d; }
rdpKeep(st, i, d) == IF farther(d, st) THEN [index |-> i, dmax |-> d] ELSE st

\* the for loop over the interior points i = lo..hi (0-based)
RECURSIVE rdpScan(_, _, _, _)
rdpScan(points, st, lo, hi) ==
  IF lo > hi THEN st
  ELSE rdpScan(points,
               rdpKeep(st, lo, perpendicularDistance(points[lo + 1], points[1],
                                                     points[Len(points)])),
               lo + 1, hi)

\* [...recResults1.slice(0, recResults1.length - 1), ...recResults2]
rdpJoin(recResults1, recResults2) ==
  SubSeq(recResults1, 1, Len(recResults1) - 1) \o recResults2

\* dmax > epsilon
rdpSplits(far, eps) ==
  Farther(far.dmax, [num |-> eps.num * eps.num, den |-> eps.den * eps.den])

RECURSIVE ramerDouglasPeucker(_, _)
rdpFrom(points, eps, far) ==
  IF rdpSplits(far, eps)
  THEN rdpJoin(ramerDouglasPeucker(SubSeq(points, 1, far.index + 1), eps),
               ramerDouglasPeucker(SubSeq(points, far.index + 1, Len(points)), eps))
  ELSE <<points[1], points[Len(points)]>>

ramerDouglasPeucker(points, eps) ==
  IF Len(points) <= 2 THEN points
  ELSE rdpFrom(points, eps,
               rdpScan(points, [index |-> 0, dmax |-> [num |-> 0, den |-> 1]],
                       1, Len(points) - 2))

-----------------------------------------------------------------------------
(* Inputs *)

\* bounds of the input families
SmallW == 18
SmallH == 7
DotN == 2
BigSide == 29
RegN == 3
CombTeeth == 10
CombLen == 1000
CombPitch == 2 * dilateAmount + 2

Rect(x0, y0, rw, rh) == {<<x, y>> : x \in x0..(x0 + rw - 1), y \in y0..(y0 + rh - 1)}

\* strokes that can be combined on a SmallW x SmallH image: a 4x4 block at the
\* top-left corner, a 16-pixel horizontal line, a dot at the top-right corner
\* and a 5x4 block
Parts == << Rect(0, 0, 4, 4), Rect(1, 5, 16, 1), Rect(SmallW - 1, 0, 1, 1), Rect(8, 0, 5, 4) >>

SmallImages ==
  {[W |-> SmallW, H |-> SmallH, black |-> UNION {Parts[k] : k \in ks}] :
     ks \in SUBSET (1..Len(Parts))}

\* one black pixel at each position of a DotN x DotN image
DotImages ==
  {[W |-> DotN, H |-> DotN, black |-> {<<x, y>>}] : x \in 0..(DotN - 1), y \in 0..(DotN - 1)}

\* a large block and, one row apart, a 16-pixel line
BigImage ==
  [W |-> BigSide, H |-> BigSide + 2,
   black |-> Rect(0, 0, BigSide, BigSide) \cup Rect(0, BigSide + 1, 16, 1)]

\* the concrete scenarios on a 100 x 100 image
PixelImage == [W |-> 100, H |-> 100, black |-> {<<50, 50>>}]
DiskImage ==
  [W |-> 100, H |-> 100,
   black |-> {q \in Rect(30, 30, 41, 41) :
                (q[1] - 50) * (q[1] - 50) + (q[2] - 50) * (q[2] - 50) <= 20 * 20}]
LineImage == [W |-> 100, H |-> 100, black |-> Rect(10, 50, 81, 1)]

\* a comb: a horizontal spine with CombTeeth vertical teeth of CombLen pixels,
\* one tooth every CombPitch columns; the outline of its silhouette is longer
\* than the contour walk's step limit
CombImage ==
  [W |-> (CombTeeth - 1) * CombPitch + 1, H |-> CombLen,
   black |-> {p \in Rect(0, 0, (CombTeeth - 1) * CombPitch + 1, CombLen) :
                p[2] = 0 \/ p[1] % CombPitch = 0}]

\* a 64 x 63 region of 4000 pixels: avgWidth = 4000 / 64 * 2 = 125
WidthImage == [W |-> 64, H |-> 64, black |-> Rect(0, 0, 64, 62) \cup Rect(0, 62, 32, 1)]

\* a block of 5 x 3 = 15 pixels, the value of noiseThreshold
FloorImage == [W |-> 5, H |-> 3, black |-> Rect(0, 0, 5, 3)]

ScenarioImages == {PixelImage, DiskImage, LineImage, WidthImage}

\* image elements whose naturalWidth or naturalHeight is 0
ZeroImages ==
  {[W |-> 0, H |-> 0, black |-> {}],
   [W |-> 0, H |-> SmallH, black |-> {}],
   [W |-> SmallW, H |-> 0, black |-> {}]}

Images ==
  SmallImages \cup DotImages \cup {BigImage, CombImage} \cup ScenarioImages
    \cup ZeroImages \cup {FloorImage}

DetailLevels == {0, 1, 50, 100}
Sensitivities == {0, 1, 50}

Params(d, s) == [detailLevel |-> d, centerlineSensitivity |-> s, smoothingLevel |-> 3]

\* the parameters a preview is run with
ParamsFor(img) ==
  IF img = PixelImage THEN {Params(50, 50)}
  ELSE IF img = DiskImage THEN {Params(50, 50)}
  ELSE IF img = LineImage THEN {Params(100, 0)}
  ELSE IF img = WidthImage THEN {Params(50, 41)}
  ELSE IF img = CombImage THEN {Params(0, 0)}
  ELSE {Params(d, s) : d \in DetailLevels, s \in Sensitivities}

NoResult == [stats |-> [totalPaths |-> -1]]

\* the binary masks handed to identifyRegions on its own: every mask on every
\* grid of at most RegN columns and RegN rows
Masks ==
  UNION {[w : {gw}, h : {gh}, cells : SUBSET (0..(gw * gh - 1))] :
           gw \in 1..RegN, gh \in 1..RegN}

NoMask == [w |-> 0, h |-> 0, cells |-> {}]

\* 1-pixel-wide shapes away from the border of a ThinSide x ThinSide grid: the
\* three-pixel L-shapes and the horizontal and vertical lines
ThinSide == 5

LShape(x, y) ==
  [w |-> ThinSide, h |-> ThinSide,
   cells |-> {Idx(x, y, ThinSide), Idx(x, y + 1, ThinSide), Idx(x + 1, y + 1, ThinSide)}]

HLine(x, y, n) ==
  [w |-> ThinSide, h |-> ThinSide, cells |-> {Idx(x + k, y, ThinSide) : k \in 0..(n - 1)}]

VLine(x, y, n) ==
  [w |-> ThinSide, h |-> ThinSide, cells |-> {Idx(x, y + k, ThinSide) : k \in 0..(n - 1)}]

\* a block of 2 x 2 pixels
Block(x, y) ==
  [w |-> ThinSide, h |-> ThinSide,
   cells |-> {Idx(x, y, ThinSide), Idx(x + 1, y, ThinSide),
              Idx(x, y + 1, ThinSide), Idx(x + 1, y + 1, ThinSide)}]

ThinMasks ==
  {LShape(x, y) : x \in 1..(ThinSide - 3), y \in 1..(ThinSide - 3)}
  \cup {Block(x, y) : x \in 1..(ThinSide - 3), y \in 1..(ThinSide - 3)}
  \cup {HLine(xn[1], y, xn[2]) :
          xn \in {c \in (1..(ThinSide - 2)) \X (1..(ThinSide - 2)) :
                    c[1] + c[2] <= ThinSide - 1},
          y \in 1..(ThinSide - 2)}
  \cup {VLine(x, yn[1], yn[2]) :
          x \in 1..(ThinSide - 2),
          yn \in {c \in (1..(ThinSide - 2)) \X (1..(ThinSide - 2)) :
                    c[1] + c[2] <= ThinSide - 1}}

\* the state of the variables a run does not use
SkelIdle == skeleton = {} /\ chains = <<>> /\ dropped = <<>>

\* polylines of at most PolyLen points: the points of the columns 0..PolyGrid
\* of two rows, and one point PolyFar pixels away
PolyGrid == 2
PolyLen == 4
PolyFar == 30

PolyPoints == ((0..PolyGrid) \X {0, 1}) \cup {<<PolyFar, 0>>}

Polylines == UNION {[1..n -> PolyPoints] : n \in 0..PolyLen}

\* the tolerances, as fractions: 0 and the 0.8 of line 196
Epsilons == {[num |-> 0, den |-> 1], [num |-> 4, den |-> 5]}

RdpIdle == poly = <<>> /\ epsilon = [num |-> 0, den |-> 1] /\ simplified = <<>>

\* a mask rendered as an opaque grayscale image: the RGBA samples of value
\* mask * 255, cell by cell
Grayscale(m) ==
  [i \in 0..(m.w * m.h - 1) |->
     IF i \in m.cells THEN <<255, 255, 255, 255>> ELSE <<0, 0, 0, 255>>]

NoData == [i \in {} |-> White]

BinIdle == gray = NoData /\ rebin = {}

OptIdle == kind = OUTLINE /\ once = <<>> /\ twice = <<>>

IDLE == "IDLE"
PROCESSING == "PROCESSING"
SUCCESS == "SUCCESS"
ERROR == "ERROR"

\* the files a user can pick (0 stands for null), the number of file reads and
\* of processImage calls that can be pending at once
NumFiles == 2
MaxLoads == 2
MaxTasks == 2

\* the number of suggestParams calls of a run
MaxCalls == 2

\* the number of raw polylines handed to the merge loop
MaxPaths == 3

\* the values a caller assigns to a field of a params object
Written == {0, 50}

Files == 1..NumFiles

\* what the file dialog hands to handleFileChange: no file, a file of another
\* type, a file above 10 MB, or an accepted file
Picks == {"none", "badtype", "toolarge", "image"}

\* the two App components of the sources
Builds == {"convert", "preview"}

AppUnset ==
  /\ status = IDLE
  /\ appImage = 0
  /\ imageElement = 0
  /\ appResult = 0
  /\ error = ""
  /\ showPreview = FALSE
  /\ loads = <<>>
  /\ tasks = <<>>
  /\ previewOf = 0
  /\ isGenerating = FALSE
  /\ previews = <<>>

AppIdle == build = "preview" /\ AppUnset

StatIdle == defaults = defaultParams /\ handed = FALSE /\ suggested = <<>>

MergeIdle == connected = <<>> /\ variant = "connect"

ContourIdle == contours = <<>> /\ walks = <<>>

ExtraIdle == MergeIdle /\ ContourIdle

OthersIdle ==
  SkelIdle /\ RdpIdle /\ BinIdle /\ OptIdle /\ AppIdle /\ StatIdle /\ ExtraIdle

-----------------------------------------------------------------------------
(* The pipeline as a state machine: one call of preview or process *)

Init ==
  /\ pc = "idle"
  /\ image \in Images
  /\ params = defaultParams
  /\ binaryData = {}
  /\ silhouettePaths = <<>>
  /\ filteredRegions = <<>>
  /\ innerPaths = <<>>
  /\ dispatch = <<>>
  /\ result = NoResult
  /\ rmask = NoMask
  /\ regions = <<>>
  /\ OthersIdle

\* preview(imageElement, params)
Preview ==
  /\ pc = "idle"
  /\ \E p \in ParamsFor(image) : params' = p
  /\ pc' = "binarize"
  /\ UNCHANGED <<image, binaryData, silhouettePaths, filteredRegions, innerPaths, dispatch, result, rmask, regions, otherVars>>

\* process(imageElement): processWithParams with this.defaultParams
Process ==
  /\ pc = "idle"
  /\ defaults \in ParamsFor(image)
  /\ params' = defaults
  /\ pc' = "binarize"
  /\ UNCHANGED <<image, binaryData, silhouettePaths, filteredRegions, innerPaths, dispatch, result, rmask, regions, otherVars>>

\* getContext('2d') returned null: throw new Error('Could not get canvas context')
NoContext ==
  /\ pc = "idle"
  /\ pc' = "nocontext"
  /\ UNCHANGED <<image, params, binaryData, silhouettePaths, filteredRegions, innerPaths, dispatch, result, rmask, regions, otherVars>>

\* ctx.drawImage throws for an image element in the broken state (its
\* naturalWidth and naturalHeight are then both 0); an image element without
\* pixels that is not broken is not drawn and nothing is thrown
DrawBroken ==
  /\ pc = "binarize"
  /\ image.W = 0
  /\ image.H = 0
  /\ pc' = "broken"
  /\ UNCHANGED <<image, params, binaryData, silhouettePaths, filteredRegions, innerPaths, dispatch, result, rmask, regions, otherVars>>

Binarize ==
  /\ pc = "binarize"
  /\ binaryData' = toBinary(image, canvasW(image), canvasH(image), threshold)
  /\ pc' = "silhouette"
  /\ UNCHANGED <<image, params, silhouettePaths, filteredRegions, innerPaths, dispatch, result, rmask, regions, otherVars>>

Silhouette ==
  /\ pc = "silhouette"
  /\ silhouettePaths' = silhouetteStage(binaryData, canvasW(image), canvasH(image), params)
  /\ pc' = "details"
  /\ UNCHANGED <<image, params, binaryData, filteredRegions, innerPaths, dispatch, result, rmask, regions, otherVars>>

\* STEP 2, first half: the regions that pass the noise and area filters
Regions ==
  /\ pc = "details"
  /\ filteredRegions' = keptRegions(binaryData, canvasW(image), canvasH(image), params)
  /\ pc' = "trace"
  /\ UNCHANGED <<image, params, binaryData, silhouettePaths, innerPaths, dispatch, result, rmask, regions, otherVars>>

\* innerPaths and the branches taken, as the loop leaves them
Traced(r) ==
  /\ innerPaths' = r.paths
  /\ dispatch' = r.kinds

\* STEP 2, second half: the loop over filteredRegions
Details ==
  /\ pc = "trace"
  /\ Traced(tracePaths(filteredRegions, binaryData, canvasW(image), canvasH(image), params))
  /\ pc' = "layers"
  /\ UNCHANGED <<image, params, binaryData, silhouettePaths, filteredRegions, result, rmask, regions, otherVars>>

Layers ==
  /\ pc = "layers"
  /\ result' = layerStage(silhouettePaths, innerPaths, canvasW(image), canvasH(image))
  /\ pc' = "done"
  /\ UNCHANGED <<image, params, binaryData, silhouettePaths, filteredRegions, innerPaths, dispatch, rmask, regions, otherVars>>

Next ==
  \/ Preview \/ Process \/ NoContext \/ DrawBroken
  \/ Binarize \/ Silhouette \/ Regions \/ Details \/ Layers

Spec == Init /\ [][Next]_vars

-----------------------------------------------------------------------------
(* identifyRegions on its own, over every small mask *)

InitRegions ==
  /\ pc = "mask"
  /\ rmask \in Masks
  /\ regions = <<>>
  /\ image = PixelImage
  /\ params = defaultParams
  /\ binaryData = {}
  /\ silhouettePaths = <<>>
  /\ filteredRegions = <<>>
  /\ innerPaths = <<>>
  /\ dispatch = <<>>
  /\ result = NoResult
  /\ OthersIdle

IdentifyRegions ==
  /\ pc = "mask"
  /\ regions' = identifyRegions(rmask.cells, rmask.w, rmask.h)
  /\ pc' = "regions"
  /\ UNCHANGED <<image, params, binaryData, silhouettePaths, filteredRegions, innerPaths, dispatch, result, rmask, otherVars>>

NextRegions == IdentifyRegions

SpecRegions == InitRegions /\ [][NextRegions]_vars

-----------------------------------------------------------------------------
(* zhangSuen and traceSkeleton on their own, over every small mask *)

PipeIdle ==
  /\ image = PixelImage
  /\ params = defaultParams
  /\ binaryData = {}
  /\ silhouettePaths = <<>>
  /\ filteredRegions = <<>>
  /\ innerPaths = <<>>
  /\ dispatch = <<>>
  /\ result = NoResult

InitSkeleton ==
  /\ pc = "raw"
  /\ rmask \in Masks \cup ThinMasks
  /\ regions = <<>>
  /\ OthersIdle
  /\ PipeIdle

\* const skel = this.zhangSuen(rb, w, h)
Thin ==
  /\ pc = "raw"
  /\ skeleton' = zhangSuen(rmask.cells, rmask.w, rmask.h)
  /\ pc' = "thinned"
  /\ UNCHANGED <<pipeVars, rmask, regions, chains, dropped, rdpVars, binVars, optVars, appVars, statVars, extraVars>>

\* paths = traceSkeleton(skel, w, h)
TraceSkeleton ==
  /\ pc = "thinned"
  /\ chains' = traceSkeleton(skeleton, rmask.w, rmask.h)
  /\ dropped' = droppedChains(skeleton, rmask.w, rmask.h)
  /\ pc' = "chains"
  /\ UNCHANGED <<pipeVars, rmask, regions, skeleton, rdpVars, binVars, optVars, appVars, statVars, extraVars>>

NextSkeleton == Thin \/ TraceSkeleton

SpecSkeleton == InitSkeleton /\ [][NextSkeleton]_vars

-----------------------------------------------------------------------------
(* ramerDouglasPeucker on its own, over every small polyline *)

InitRdp ==
  /\ pc = "poly"
  /\ poly \in Polylines
  /\ epsilon = [num |-> 0, den |-> 1]
  /\ simplified = <<>>
  /\ rmask = NoMask
  /\ regions = <<>>
  /\ SkelIdle
  /\ BinIdle
  /\ OptIdle
  /\ AppIdle
  /\ StatIdle
  /\ ExtraIdle
  /\ PipeIdle

\* simplified = ramerDouglasPeucker(points, epsilon)
Simplify ==
  /\ pc = "poly"
  /\ \E eps \in Epsilons :
       /\ epsilon' = eps
       /\ simplified' = ramerDouglasPeucker(poly, eps)
  /\ pc' = "simplified"
  /\ UNCHANGED <<pipeVars, rmask, regions, skelVars, poly, binVars, optVars, appVars, statVars, extraVars>>

NextRdp == Simplify

SpecRdp == InitRdp /\ [][NextRdp]_vars

-----------------------------------------------------------------------------
(* toBinary on its own, over every small mask rendered as a grayscale image *)

InitBinary ==
  /\ pc = "mask"
  /\ rmask \in Masks
  /\ regions = <<>>
  /\ OthersIdle
  /\ PipeIdle

\* the mask drawn as an image
Render ==
  /\ pc = "mask"
  /\ gray' = Grayscale(rmask)
  /\ pc' = "gray"
  /\ UNCHANGED <<pipeVars, rmask, regions, skelVars, rdpVars, rebin, optVars, appVars, statVars, extraVars>>

\* toBinary(data, w, h, 180)
Rebinarize ==
  /\ pc = "gray"
  /\ rebin' = toBinaryData(gray, rmask.w, rmask.h, threshold)
  /\ pc' = "rebin"
  /\ UNCHANGED <<pipeVars, rmask, regions, skelVars, rdpVars, gray, optVars, appVars, statVars, extraVars>>

NextBinary == Render \/ Rebinarize

SpecBinary == InitBinary /\ [][NextBinary]_vars

-----------------------------------------------------------------------------
(* optimizePath on its own, applied to a small polyline and then to the     *)
(* points it returned                                                        *)

InitOptimize ==
  /\ pc = "path"
  /\ poly \in Polylines
  /\ epsilon = [num |-> 0, den |-> 1]
  /\ simplified = <<>>
  /\ rmask = NoMask
  /\ regions = <<>>
  /\ SkelIdle
  /\ BinIdle
  /\ OptIdle
  /\ AppIdle
  /\ StatIdle
  /\ ExtraIdle
  /\ PipeIdle

\* opt = optimizePath(path, params, type)
Optimize ==
  /\ pc = "path"
  /\ \E type \in {OUTLINE, CENTERLINE} :
       /\ kind' = type
       /\ once' = optimizePath(poly, defaultParams, type)
  /\ pc' = "optimized"
  /\ UNCHANGED <<pipeVars, rmask, regions, skelVars, rdpVars, binVars, twice, appVars, statVars, extraVars>>

\* optimizePath(opt.points, params, type)
Reoptimize ==
  /\ pc = "optimized"
  /\ once # <<>>
  /\ twice' = optimizeUnits(once[1].points, defaultParams, kind, Scale)
  /\ pc' = "reoptimized"
  /\ UNCHANGED <<pipeVars, rmask, regions, skelVars, rdpVars, binVars, kind, once, appVars, statVars, extraVars>>

NextOptimize == Optimize \/ Reoptimize

SpecOptimize == InitOptimize /\ [][NextOptimize]_vars

-----------------------------------------------------------------------------
(* The App component: build "convert" is the App with the convert button,   *)
(* build "preview" the App that renders the PreviewPanel                     *)

Remove(seq, k) == SubSeq(seq, 1, k - 1) \o SubSeq(seq, k + 1, Len(seq))

\* {showPreview && !result && <PreviewPanel ... />}
Mounted(sp, res) == sp /\ res = 0

\* the PreviewPanel after a render of App with showPreview sp, result res and
\* imageElement el: unmounting drops its state, mounting it or handing it a
\* new image element runs the effect that calls generatePreview
PanelStep(sp, res, el, changed) ==
  IF ~Mounted(sp, res)
  THEN previewOf' = 0 /\ isGenerating' = FALSE /\ previews' = <<>>
  ELSE IF ~Mounted(showPreview, appResult)
  THEN /\ previewOf' = 0
       /\ isGenerating' = (el # 0)
       /\ previews' = IF el # 0 THEN <<el>> ELSE <<>>
  ELSE IF changed /\ el # 0
  THEN /\ previewOf' = previewOf
       /\ isGenerating' = TRUE
       /\ previews' = Append(previews, el)
  ELSE UNCHANGED <<previewOf, isGenerating, previews>>

InitApp ==
  /\ pc = "app"
  /\ build \in Builds
  /\ AppUnset
  /\ rmask = NoMask
  /\ regions = <<>>
  /\ SkelIdle
  /\ RdpIdle
  /\ BinIdle
  /\ OptIdle
  /\ StatIdle
  /\ ExtraIdle
  /\ PipeIdle

\* handleFileChange: the file input is rendered only while image is null
HandleFileChange ==
  /\ appImage = 0
  /\ \E pick \in Picks :
       \/ /\ pick = "none"
          /\ UNCHANGED <<error, loads>>
       \/ /\ pick = "badtype"
          /\ error' = "format"
          /\ UNCHANGED loads
       \/ /\ pick = "toolarge"
          /\ error' = "size"
          /\ UNCHANGED loads
       \/ /\ pick = "image"
          /\ Len(loads) < MaxLoads
          /\ \E file \in Files : loads' = Append(loads, file)
          /\ UNCHANGED error
  /\ UNCHANGED <<pc, pipeVars, rmask, regions, skelVars, rdpVars, binVars, optVars, statVars, extraVars,
                 build, status, appImage, imageElement, appResult, showPreview,
                 tasks, previewOf, isGenerating, previews>>

\* reader.onload and then img.onload of a pending read
FileLoaded ==
  /\ \E k \in DOMAIN loads :
       /\ appImage' = loads[k]
       /\ loads' = Remove(loads, k)
       /\ IF build = "preview"
          THEN /\ Len(previews) < MaxTasks
               /\ imageElement' = loads[k]
               /\ showPreview' = TRUE
               /\ PanelStep(TRUE, 0, loads[k], TRUE)
          ELSE UNCHANGED <<imageElement, showPreview, previewOf, isGenerating, previews>>
  /\ error' = ""
  /\ status' = IDLE
  /\ appResult' = 0
  /\ UNCHANGED <<pc, pipeVars, rmask, regions, skelVars, rdpVars, binVars, optVars, statVars, extraVars,
                 build, tasks>>

\* the remove button over the image
RemoveImage ==
  /\ appImage # 0
  /\ appImage' = 0
  /\ appResult' = 0
  /\ status' = IDLE
  /\ PanelStep(showPreview, 0, imageElement, FALSE)
  /\ UNCHANGED <<pc, pipeVars, rmask, regions, skelVars, rdpVars, binVars, optVars, statVars, extraVars,
                 build, imageElement, error, showPreview, loads, tasks>>

\* processImage up to its first await; the convert button is there unless the
\* status is SUCCESS and is disabled while it is PROCESSING, the footer
\* button calls processImage whenever there is an image
ProcessImage ==
  /\ build = "convert"
  /\ appImage # 0
  /\ Len(tasks) < MaxTasks
  /\ status' = PROCESSING
  /\ error' = ""
  /\ tasks' = Append(tasks, [at |-> "timer", of |-> appImage])
  /\ UNCHANGED <<pc, pipeVars, rmask, regions, skelVars, rdpVars, binVars, optVars, statVars, extraVars,
                 build, appImage, imageElement, appResult, showPreview, loads,
                 previewOf, isGenerating, previews>>

\* await new Promise(r => setTimeout(r, 500))
TimerFired ==
  /\ \E k \in DOMAIN tasks :
       /\ tasks[k].at = "timer"
       /\ tasks' = [tasks EXCEPT ![k].at = "onload"]
  /\ UNCHANGED <<pc, pipeVars, rmask, regions, skelVars, rdpVars, binVars, optVars, statVars, extraVars,
                 build, status, appImage, imageElement, appResult, error, showPreview,
                 loads, previewOf, isGenerating, previews>>

\* await new Promise((res) => img.onload = res)
ImageLoaded ==
  /\ \E k \in DOMAIN tasks :
       /\ tasks[k].at = "onload"
       /\ tasks' = [tasks EXCEPT ![k].at = "process"]
  /\ UNCHANGED <<pc, pipeVars, rmask, regions, skelVars, rdpVars, binVars, optVars, statVars, extraVars,
                 build, status, appImage, imageElement, appResult, error, showPreview,
                 loads, previewOf, isGenerating, previews>>

\* ImageProcessor.process resolved: setResult, setStatus(SUCCESS)
ProcessResolved ==
  /\ \E k \in DOMAIN tasks :
       /\ tasks[k].at = "process"
       /\ appResult' = tasks[k].of
       /\ tasks' = Remove(tasks, k)
  /\ status' = SUCCESS
  /\ UNCHANGED <<pc, pipeVars, rmask, regions, skelVars, rdpVars, binVars, optVars, statVars, extraVars,
                 build, appImage, imageElement, error, showPreview, loads,
                 previewOf, isGenerating, previews>>

\* ImageProcessor.process threw: the catch block
ProcessRejected ==
  /\ \E k \in DOMAIN tasks :
       /\ tasks[k].at = "process"
       /\ tasks' = Remove(tasks, k)
  /\ error' = "failed"
  /\ status' = ERROR
  /\ UNCHANGED <<pc, pipeVars, rmask, regions, skelVars, rdpVars, binVars, optVars, statVars, extraVars,
                 build, appImage, imageElement, appResult, showPreview, loads,
                 previewOf, isGenerating, previews>>

\* generatePreview: ImageProcessor.preview resolved
PreviewResolved ==
  /\ \E k \in DOMAIN previews :
       /\ previewOf' = previews[k]
       /\ previews' = Remove(previews, k)
  /\ isGenerating' = FALSE
  /\ UNCHANGED <<pc, pipeVars, rmask, regions, skelVars, rdpVars, binVars, optVars, statVars, extraVars,
                 build, status, appImage, imageElement, appResult, error, showPreview,
                 loads, tasks>>

\* generatePreview: ImageProcessor.preview threw
PreviewRejected ==
  /\ \E k \in DOMAIN previews : previews' = Remove(previews, k)
  /\ isGenerating' = FALSE
  /\ UNCHANGED <<pc, pipeVars, rmask, regions, skelVars, rdpVars, binVars, optVars, statVars, extraVars,
                 build, status, appImage, imageElement, appResult, error, showPreview,
                 loads, tasks, previewOf>>

\* the confirm button of the PreviewPanel: result && onConfirm(result), which
\* is handlePreviewConfirm
HandlePreviewConfirm ==
  /\ build = "preview"
  /\ Mounted(showPreview, appResult)
  /\ imageElement # 0
  /\ previewOf # 0
  /\ ~isGenerating
  /\ appResult' = previewOf
  /\ status' = SUCCESS
  /\ showPreview' = FALSE
  /\ PanelStep(FALSE, previewOf, imageElement, FALSE)
  /\ UNCHANGED <<pc, pipeVars, rmask, regions, skelVars, rdpVars, binVars, optVars, statVars, extraVars,
                 build, appImage, imageElement, error, loads, tasks>>

NextApp ==
  \/ HandleFileChange \/ FileLoaded \/ RemoveImage
  \/ ProcessImage \/ TimerFired \/ ImageLoaded \/ ProcessResolved \/ ProcessRejected
  \/ PreviewResolved \/ PreviewRejected \/ HandlePreviewConfirm

SpecApp == InitApp /\ [][NextApp]_vars

-----------------------------------------------------------------------------
(* suggestParams, process and preview called one after the other by a caller *)
(* that keeps the params object it was handed                                *)

InitParams ==
  /\ pc = "idle"
  /\ image \in DotImages
  /\ params = defaultParams
  /\ binaryData = {}
  /\ silhouettePaths = <<>>
  /\ filteredRegions = <<>>
  /\ innerPaths = <<>>
  /\ dispatch = <<>>
  /\ result = NoResult
  /\ rmask = NoMask
  /\ regions = <<>>
  /\ OthersIdle

\* suggestParams(imageElement): return this.defaultParams, the object itself
SuggestParams ==
  /\ Len(suggested) < MaxCalls
  /\ suggested' = Append(suggested, defaults)
  /\ handed' = TRUE
  /\ UNCHANGED <<pc, pipeVars, rmask, regions, skelVars, rdpVars, binVars, optVars,
                 appVars, defaults, extraVars>>

\* the caller assigns a field of the object suggestParams returned, which is
\* the static defaultParams object
CallerWrites ==
  /\ handed
  /\ \/ \E d \in Written : defaults' = [defaults EXCEPT !.detailLevel = d]
     \/ \E c \in Written : defaults' = [defaults EXCEPT !.centerlineSensitivity = c]
  /\ UNCHANGED <<pc, pipeVars, rmask, regions, skelVars, rdpVars, binVars, optVars,
                 appVars, handed, suggested, extraVars>>

\* the call has returned its result and the caller makes the next call
Return ==
  /\ pc \in {"done", "nocontext"}
  /\ pc' = "idle"
  /\ params' = defaultParams
  /\ binaryData' = {}
  /\ silhouettePaths' = <<>>
  /\ filteredRegions' = <<>>
  /\ innerPaths' = <<>>
  /\ dispatch' = <<>>
  /\ result' = NoResult
  /\ UNCHANGED <<image, rmask, regions, otherVars>>

NextParams ==
  \/ SuggestParams \/ CallerWrites \/ Return
  \/ Preview \/ Process \/ NoContext
  \/ Binarize \/ Silhouette \/ Regions \/ Details \/ Layers

SpecParams == InitParams /\ [][NextParams]_vars

-----------------------------------------------------------------------------
(* Endpoint merging: the while loop of the two optimizePaths *)

connectThreshold == 4
mergeThreshold == 14

\* the threshold of the optimizePaths in use
thresholdOf(v) == IF v = "connect" THEN connectThreshold ELSE mergeThreshold

\* this.dist(a, b) < threshold
near(a, b, v) == dist(a, b).num < thresholdOf(v) * thresholdOf(v)

\* [...p].reverse()
Reverse(p) == [k \in 1..Len(p) |-> p[Len(p) + 1 - k]]

\* the checks made on a pair, in their order: the merged polyline of the first
\* check that holds, or no polyline; only the optimizePaths with mergeThreshold
\* has the check of p1S against p2E
joined(p1, p2, v) ==
  IF near(p1[Len(p1)], p2[1], v) THEN p1 \o p2
  ELSE IF near(p1[Len(p1)], p2[Len(p2)], v) THEN p1 \o Reverse(p2)
  ELSE IF near(p1[1], p2[1], v) THEN Reverse(p1) \o p2
  ELSE IF v = "merge" /\ near(p1[1], p2[Len(p2)], v) THEN p2 \o p1
  ELSE <<>>

\* the pairs i < j on which a check holds
mergeable(paths, v) ==
  {ij \in (DOMAIN paths) \X (DOMAIN paths) :
     ij[1] < ij[2] /\ joined(paths[ij[1]], paths[ij[2]], v) # <<>>}

\* the pair the scan of the two for loops reaches first
firstPair(found) ==
  CHOOSE ij \in found :
    \A o \in found : ij[1] < o[1] \/ (ij[1] = o[1] /\ ij[2] <= o[2])

\* connected[i] = merged polyline; connected.splice(j, 1)
splice(paths, i, j, v) ==
  [k \in 1..(Len(paths) - 1) |->
     IF k = i THEN joined(paths[i], paths[j], v)
     ELSE IF k < j THEN paths[k] ELSE paths[k + 1]]

\* the raw polylines handed to optimizePaths: up to MaxPaths polylines of two
\* points on a line, at distances below 4, between 4 and 14, and above 14
MergePoints == {<<0, 0>>, <<3, 0>>, <<13, 0>>, <<30, 0>>, <<50, 0>>}

RawPaths == [1..2 -> MergePoints]

RawLists == UNION {[1..n -> RawPaths] : n \in 0..MaxPaths}

InitMerge ==
  /\ pc = "merging"
  /\ variant \in {"connect", "merge"}
  /\ connected \in RawLists
  /\ rmask = NoMask
  /\ regions = <<>>
  /\ SkelIdle
  /\ RdpIdle
  /\ BinIdle
  /\ OptIdle
  /\ AppIdle
  /\ StatIdle
  /\ ContourIdle
  /\ PipeIdle

\* one iteration of while (merged): the scan merges the first pair on which a
\* check holds and breaks, or finds none and the loop ends
MergePass ==
  /\ pc = "merging"
  /\ IF mergeable(connected, variant) # {}
     THEN /\ connected' = splice(connected, firstPair(mergeable(connected, variant))[1],
                                 firstPair(mergeable(connected, variant))[2], variant)
          /\ pc' = "merging"
     ELSE /\ connected' = connected
          /\ pc' = "merged"
  /\ UNCHANGED <<pipeVars, rmask, regions, skelVars, rdpVars, binVars, optVars, appVars,
                 statVars, variant, contourVars>>

NextMerge == MergePass

SpecMerge == InitMerge /\ [][NextMerge]_vars

-----------------------------------------------------------------------------
(* traceContour on each region of a mask, with the whole mask as bin: the  *)
(* outline branch of the loop over the regions                             *)

\* a ThinSide x ThinSide block with a hole of one pixel at (2, 2)
Ring ==
  [w |-> ThinSide, h |-> ThinSide,
   cells |-> (0..(ThinSide * ThinSide - 1)) \ {Idx(2, 2, ThinSide)}]

\* a line of one pixel by maxSteps / 2 + 2 pixels: the walk to its far end and
\* back takes maxSteps + 2 steps
LongLine ==
  [w |-> maxSteps \div 2 + 2, h |-> 1, cells |-> 0..(maxSteps \div 2 + 1)]

InitContour ==
  /\ pc = "mask"
  /\ rmask \in Masks \cup {Ring, LongLine}
  /\ regions = <<>>
  /\ OthersIdle
  /\ PipeIdle

\* const paths = this.traceContour(r, binaryData, w, h), for each region r
TraceContours ==
  /\ pc = "regions"
  /\ walks' = [k \in DOMAIN regions |->
                 contourWalks(regions[k], rmask.cells, rmask.w, rmask.h,
                              [k |-> 1, localVis |-> {}, walks |-> <<>>])]
  /\ contours' = [k \in DOMAIN regions |-> keptContours(walks'[k])]
  /\ pc' = "contours"
  /\ UNCHANGED <<pipeVars, rmask, regions, skelVars, rdpVars, binVars, optVars, appVars,
                 statVars, mergeVars>>

NextContour == IdentifyRegions \/ TraceContours

SpecContour == InitContour /\ [][NextContour]_vars

-----------------------------------------------------------------------------
(* Properties *)

SeqRange(q) == {q[k] : k \in DOMAIN q}

Adj4(a, b) == Abs(a[1] - b[1]) + Abs(a[2] - b[2]) = 1

\* the pixels of S joined to R by steps between 4-adjacent pixels of S
RECURSIVE Reach4(_, _)
Reach4(S, R) ==
  LET R2 == R \cup {p \in S : \E q \in R : Adj4(p, q)}
  IN IF R2 = R THEN R ELSE Reach4(S, R2)

Connected4(S) == S = {} \/ Reach4(S, {CHOOSE p \in S : TRUE}) = S

Foreground(m) == {<<PX(i, m.w), PY(i, m.w)>> : i \in m.cells}

\* C1: identifyRegions partitions the foreground: every pixel of value 1 is
\* listed exactly once, in exactly one region; no pixel of value 0 (or outside
\* the grid) is listed; each region is 4-connected and no foreground pixel
\* outside it is 4-adjacent to it (it is maximal).
RegionsPartitionForeground ==
  pc = "regions" =>
    LET fg == Foreground(rmask)
    IN /\ \A p \in fg :
            Cardinality({kj \in {<<k, j>> : k \in DOMAIN regions, j \in 1..(rmask.w * rmask.h)} :
                           /\ kj[2] <= Len(regions[kj[1]].pixels)
                           /\ regions[kj[1]].pixels[kj[2]] = p}) = 1
       /\ \A k \in DOMAIN regions : SeqRange(regions[k].pixels) \subseteq fg
       /\ \A k \in DOMAIN regions :
            LET R == SeqRange(regions[k].pixels)
            IN /\ R # {}
               /\ Connected4(R)
               /\ \A p \in fg \ R : \A q \in R : ~Adj4(p, q)

\* a mask with a 0 cell and two regions that touch only diagonally, one of
\* them reached by going up from a later row
RegionsPartitionWitness ==
  /\ pc = "regions"
  /\ Len(regions) >= 2
  /\ Cardinality(rmask.cells) < rmask.w * rmask.h
  /\ \E k \in DOMAIN regions :
       \E a, b \in DOMAIN regions[k].pixels :
         a < b /\ regions[k].pixels[b][2] < regions[k].pixels[a][2]
  /\ \E k1, k2 \in DOMAIN regions :
       /\ k1 # k2
       /\ \E p \in SeqRange(regions[k1].pixels), q \in SeqRange(regions[k2].pixels) :
            Abs(p[1] - q[1]) = 1 /\ Abs(p[2] - q[2]) = 1

Outlines(ps) == {p \in SeqRange(ps) : p.pathType = OUTLINE}

Centerlines(ps) == {p \in SeqRange(ps) : p.pathType = CENTERLINE}

Strokes(doc) == {doc.paths[k].stroke : k \in DOMAIN doc.paths}

\* C2: layer exclusivity after processWithParams: every OUTLINE path (the
\* silhouette included) is in the cut layer and in the full layer, every
\* CENTERLINE path is in the engrave layer and in the full layer, no path is in
\* both cut and engrave, and full holds exactly the paths of cut and engrave;
\* the three documents are drawn from these layers.
LayerExclusivity ==
  pc = "done" =>
    LET cut == SeqRange(result.cutPaths)
        eng == SeqRange(result.engravePaths)
        all == SeqRange(result.allPaths)
        made == SeqRange(silhouettePaths) \cup SeqRange(innerPaths)
    IN /\ SeqRange(silhouettePaths) \subseteq Outlines(silhouettePaths)
       /\ \A p \in made : p.pathType = OUTLINE => p \in cut /\ p \in all
       /\ \A p \in made : p.pathType = CENTERLINE => p \in eng /\ p \in all
       /\ cut \cap eng = {}
       /\ all = cut \cup eng
       /\ Len(result.allPaths) = Len(result.cutPaths) + Len(result.engravePaths)
       /\ Len(result.svgCut.paths) = Len(result.cutPaths)
       /\ Len(result.svgEngrave.paths) = Len(result.engravePaths)
       /\ Len(result.svgContent.paths) = Len(result.allPaths)
       /\ Strokes(result.svgCut) \subseteq {"#00ff00"}
       /\ Strokes(result.svgEngrave) \subseteq {"#0000ff"}

\* a result with a silhouette, an OUTLINE detail path and a CENTERLINE path
LayerExclusivityWitness ==
  /\ pc = "done"
  /\ silhouettePaths # <<>>
  /\ Outlines(innerPaths) # {}
  /\ Centerlines(innerPaths) # {}

DocVertices(doc) == UNION {SeqRange(doc.paths[k].d) : k \in DOMAIN doc.paths}

\* the vertices of the three documents, in hundredths of a pixel
OutputVertices ==
  DocVertices(result.svgContent) \cup DocVertices(result.svgCut)
    \cup DocVertices(result.svgEngrave)

\* C3: padding elimination: every vertex written to an output document lies
\* within the original image, 0 <= x <= width and 0 <= y <= height, the
\* vertices of the silhouette traced on the dilated mask included.
PaddingElimination ==
  pc = "done" =>
    \A v \in OutputVertices :
      /\ 0 <= v[1] /\ v[1] <= image.W * 100
      /\ 0 <= v[2] /\ v[2] <= image.H * 100

\* C4: closure correctness: every emitted path is marked closed exactly when
\* its first and last points are equal, the silhouette path included.
ClosureCorrectness ==
  pc = "done" =>
    \A p \in SeqRange(result.allPaths) :
      p.isClosed <=> (p.points[1] = p.points[Len(p.points)])

\* the number of detail paths the same image and sensitivity give at level d
DetailCount(d) ==
  Len(detailStage(binaryData, canvasW(image), canvasH(image),
                  Params(d, params.centerlineSensitivity)).paths)

\* the detail levels at which the image is also run with the same sensitivity
OtherLevels ==
  {d \in DetailLevels : Params(d, params.centerlineSensitivity) \in ParamsFor(image)}

\* C5: monotone detail: for a fixed image and a fixed centerlineSensitivity,
\* a detailLevel d1 <= d2 never gives more detail (non-silhouette) paths than d2.
MonotoneDetail ==
  pc = "done" =>
    \A d \in OtherLevels :
      /\ params.detailLevel <= d => Len(innerPaths) <= DetailCount(d)
      /\ d <= params.detailLevel => DetailCount(d) <= Len(innerPaths)

\* a run with detail paths where a higher level gives strictly more of them
MonotoneDetailWitness ==
  /\ pc = "done"
  /\ Len(innerPaths) > 0
  /\ \E d \in OtherLevels : params.detailLevel < d /\ Len(innerPaths) < DetailCount(d)

\* C6: silhouette dominance: when a silhouette path is emitted, its shoelace
\* area is at least that of every other closed OUTLINE path of the cut layer.
SilhouetteDominance ==
  pc = "done" /\ silhouettePaths # <<>> =>
    \A k \in 2..Len(result.cutPaths) :
      result.cutPaths[k].isClosed /\ result.cutPaths[k].pathType = OUTLINE =>
        calcPolyArea(result.cutPaths[k].points) <= calcPolyArea(silhouettePaths[1].points)

\* a cut layer with the silhouette and another closed OUTLINE path of area > 0
SilhouetteDominanceWitness ==
  /\ pc = "done"
  /\ silhouettePaths # <<>>
  /\ result.cutPaths[1] = silhouettePaths[1]
  /\ \E k \in 2..Len(result.cutPaths) :
       /\ result.cutPaths[k].isClosed
       /\ calcPolyArea(result.cutPaths[k].points) > 0

SinglePixel == Cardinality(image.black) = 1

\* C7 as stated: an image whose only foreground is one black pixel gives
\* totalPaths = 0, neither a silhouette path nor a detail path.
SinglePixelNoPaths ==
  pc = "done" /\ SinglePixel =>
    /\ result.stats.totalPaths = 0
    /\ silhouettePaths = <<>>
    /\ innerPaths = <<>>

\* C7, amended: an image whose only foreground is one black pixel gives exactly
\* one path, the closed OUTLINE silhouette traced on the dilated pixel (the
\* noise floor applies to the detail regions only), and no detail path.
SinglePixelSilhouetteOnly ==
  pc = "done" /\ SinglePixel =>
    /\ result.stats.totalPaths = 1
    /\ result.stats.outlineCount = 1
    /\ result.stats.centerlineCount = 0
    /\ Len(silhouettePaths) = 1
    /\ silhouettePaths[1].pathType = OUTLINE
    /\ silhouettePaths[1].isClosed
    /\ result.allPaths = silhouettePaths
    /\ innerPaths = <<>>

\* the single pixel processed with the detail stage enabled
SinglePixelWitness ==
  /\ pc = "done"
  /\ SinglePixel
  /\ image = PixelImage
  /\ params.detailLevel > 0
  /\ dispatch = <<>>

\* C8: detail off: with detailLevel = 0 the engrave layer is empty and the cut
\* layer holds only the silhouette path (at most one path), whatever the
\* centerlineSensitivity.
DetailOff ==
  pc = "done" /\ params.detailLevel = 0 =>
    /\ result.engravePaths = <<>>
    /\ result.svgEngrave.paths = <<>>
    /\ result.cutPaths = silhouettePaths
    /\ Len(result.cutPaths) <= 1
    /\ Len(result.svgCut.paths) <= 1

\* a run at level 0 of an image that has detail paths at another level
DetailOffWitness ==
  /\ pc = "done"
  /\ params.detailLevel = 0
  /\ Len(result.cutPaths) = 1
  /\ \E d \in OtherLevels : DetailCount(d) > 0

DiskRun == pc = "done" /\ image = DiskImage /\ params = Params(50, 50)

\* the cut layer is exactly one closed OUTLINE path and the engrave layer is empty
OneClosedOutline ==
  /\ Len(result.cutPaths) = 1
  /\ result.cutPaths[1].pathType = OUTLINE
  /\ result.cutPaths[1].isClosed
  /\ result.engravePaths = <<>>

\* C9 as stated: for the filled disk of radius 20 with params {50, 50} the
\* region's avgWidth exceeds fillTh (152), the region is traced as OUTLINE, cut
\* holds exactly one closed OUTLINE path and engrave is empty.
DiskTracedAsOutline ==
  DiskRun =>
    /\ Len(dispatch) = 1
    /\ fillTh(params) = 152
    /\ dispatch[1].avgWidthNum > fillTh(params) * dispatch[1].avgWidthDen
    /\ dispatch[1].useOutline
    /\ OneClosedOutline

\* C9, amended: for the filled disk of radius 20 with params {50, 50} the
\* region's avgWidth (2 * area / 41) does not exceed fillTh (152), so the region
\* is skeletonized; its skeleton gives no path, cut holds exactly one closed
\* OUTLINE path (the silhouette) and engrave is empty.
DiskSkeletonized ==
  DiskRun =>
    /\ Len(dispatch) = 1
    /\ fillTh(params) = 152
    /\ dispatch[1].avgWidthNum = 2 * dispatch[1].area
    /\ dispatch[1].avgWidthDen = 2 * 20 + 1
    /\ dispatch[1].avgWidthNum <= fillTh(params) * dispatch[1].avgWidthDen
    /\ ~dispatch[1].useOutline
    /\ dispatch[1].count = 0
    /\ innerPaths = <<>>
    /\ result.cutPaths = silhouettePaths
    /\ OneClosedOutline

\* the disk scenario has run and its region passed the noise and area filters
DiskWitness ==
  /\ DiskRun
  /\ Len(dispatch) = 1
  /\ dispatch[1].area > noiseThreshold
  /\ result.stats.totalPaths = 1

\* C10: for the 1-pixel-thick horizontal segment from (10,50) to (90,50) with
\* params {100, 0}, engrave holds at least one CENTERLINE path and every such
\* path has at most 10 vertices in the output.
LineFewVertices ==
  pc = "done" /\ image = LineImage /\ params = Params(100, 0) =>
    /\ Len(result.engravePaths) >= 1
    /\ \A k \in DOMAIN result.svgEngrave.paths : Len(result.svgEngrave.paths[k].d) <= 10

\* the number of times the cell i occurs in the chains cs
Occurrences(i, cs, w) ==
  Cardinality({kj \in UNION {{<<k, j>> : j \in DOMAIN cs[k]} : k \in DOMAIN cs} :
                 Idx(cs[kj[1]][kj[2]][1], cs[kj[1]][kj[2]][2], w) = i})

\* C11 as stated: every pixel of the thinned mask appears in exactly one
\* returned chain, exactly once.
SkeletonCoveredOnce ==
  pc = "chains" => \A i \in skeleton : Occurrences(i, chains, rmask.w) = 1

\* C11 amended: every pixel of the thinned mask is put in exactly one chain,
\* exactly once; the chains of fewer than 3 pixels are dropped and the others,
\* made of skeleton pixels only, are returned.
SkeletonCoveredOnceOrDropped ==
  pc = "chains" =>
    /\ \A i \in skeleton :
         Occurrences(i, chains, rmask.w) + Occurrences(i, dropped, rmask.w) = 1
    /\ \A k \in DOMAIN chains :
         /\ Len(chains[k]) >= 3
         /\ \A j \in DOMAIN chains[k] :
              Idx(chains[k][j][1], chains[k][j][2], rmask.w) \in skeleton
    /\ \A k \in DOMAIN dropped : Len(dropped[k]) < 3

SkeletonCoveredWitness ==
  pc = "chains" /\ Len(chains) >= 2 /\ dropped # <<>>

\* no 2 x 2 block of the mask is all foreground
OnePixelWide(m) ==
  \A i \in m.cells :
    ~ /\ PX(i, m.w) < m.w - 1
      /\ i + 1 \in m.cells
      /\ i + m.w \in m.cells
      /\ i + m.w + 1 \in m.cells

\* C12: zhangSuen returns a mask that is already 1 pixel wide unchanged.
ThinMaskUnchanged ==
  pc \in {"thinned", "chains"} /\ OnePixelWide(rmask) => skeleton = rmask.cells

\* C13: ramerDouglasPeucker(points, 0) returns the input sequence unchanged,
\* also when interior points lie exactly on the chord.
RdpIdentityAtZero ==
  pc = "simplified" /\ epsilon.num = 0 => simplified = poly

\* C14 as stated: a mask rendered with value mask * 255 and binarized with
\* threshold 180 gives the same mask.
BinarizeRoundTrip ==
  pc = "rebin" => rebin = rmask.cells

\* C14 amended: it gives the complement of the mask (a cell that was 1
\* becomes 0 and a cell that was 0 becomes 1).
BinarizeComplement ==
  pc = "rebin" => rebin = (0..(rmask.w * rmask.h - 1)) \ rmask.cells

BinarizeWitness ==
  pc = "rebin" /\ rmask.cells # {} /\ rebin # {}

\* C15: optimizePath applied to the points of its own output returns the same
\* points (here in units Scale times finer) and the same isClosed flag.
OptimizerIdempotent ==
  pc = "reoptimized" =>
    /\ twice # <<>>
    /\ twice[1].isClosed = once[1].isClosed
    /\ Len(twice[1].points) = Len(once[1].points)
    /\ \A i \in DOMAIN once[1].points :
         twice[1].points[i] = <<once[1].points[i][1] * Scale, once[1].points[i][2] * Scale>>

\* C16: every emitted polyline had at least 4 points before optimization
\* (optimizePath returns as many points as it is given, so the length of an
\* emitted path is the length of the contour or chain it was made from).
NoShortPolylines ==
  pc = "done" =>
    \A k \in DOMAIN result.allPaths : Len(result.allPaths[k].points) >= 4

\* C17: the status only ever changes along IDLE -> PROCESSING,
\* PROCESSING -> SUCCESS, PROCESSING -> ERROR, SUCCESS -> IDLE, ERROR -> IDLE.
StatusMachine ==
  [][\/ status' = status
     \/ <<status, status'>> \in
          {<<IDLE, PROCESSING>>, <<PROCESSING, SUCCESS>>, <<PROCESSING, ERROR>>,
           <<SUCCESS, IDLE>>, <<ERROR, IDLE>>}]_vars

\* C18: for an image of width 0 or height 0 the processing call never
\* completes normally and never produces a result: it fails.
ZeroDimensionFails ==
  (image.W = 0 \/ image.H = 0) => pc # "done" /\ result = NoResult

\* C19: for an image without a foreground pixel the call returns normally with
\* an empty cut layer, an empty engrave layer and statistics whose
\* outlineCount, centerlineCount and totalPaths are 0; nothing past the
\* creation of the canvas context throws for such an image.
EmptyOutputIsSuccess ==
  /\ image.black = {} /\ image.W > 0 /\ image.H > 0 => pc # "broken"
  /\ pc = "done" /\ image.black = {} =>
      /\ result.cutPaths = <<>>
      /\ result.engravePaths = <<>>
      /\ result.stats.outlineCount = 0
      /\ result.stats.centerlineCount = 0
      /\ result.stats.totalPaths = 0
      /\ result.stats # NoResult.stats

\* the call on an all-white SmallW x SmallH image has returned
EmptyOutputWitness ==
  /\ pc = "done"
  /\ image = [W |-> SmallW, H |-> SmallH, black |-> {}]
  /\ result.stats.totalPaths = 0

\* C20: every suggestParams call returns detailLevel 50 and
\* centerlineSensitivity 50, whatever was called before and whatever a caller
\* did to an object returned earlier, and every process call runs
\* processWithParams with detailLevel 50 and centerlineSensitivity 50.
SuggestedAlwaysDefault ==
  /\ [](\A k \in DOMAIN suggested :
          /\ suggested[k].detailLevel = 50
          /\ suggested[k].centerlineSensitivity = 50)
  /\ [][Process => params'.detailLevel = 50 /\ params'.centerlineSensitivity = 50]_vars

\* C21: in every result outlineCount is the number of paths of the cut layer,
\* centerlineCount the number of paths of the engrave layer, totalPaths is
\* their sum and equals pathCount, and gapsDetected is 0.
StatsConsistent ==
  pc = "done" =>
    /\ result.stats.outlineCount = Len(result.cutPaths)
    /\ result.stats.centerlineCount = Len(result.engravePaths)
    /\ result.stats.totalPaths = result.stats.outlineCount + result.stats.centerlineCount
    /\ result.stats.totalPaths = result.pathCount
    /\ result.stats.gapsDetected = 0

\* a result whose statistics count a silhouette, an OUTLINE detail path and a
\* CENTERLINE path
StatsWitness ==
  /\ pc = "done"
  /\ result.stats.outlineCount >= 2
  /\ result.stats.centerlineCount >= 1

\* C22: the millimetre width and height of each emitted document are those of
\* the view-box width and height at 3.7795 units per millimetre, so that one
\* view-box unit is 1/3.7795 mm.
ScaleOneToOne ==
  pc = "done" =>
    \A doc \in {result.svgContent, result.svgCut, result.svgEngrave} :
      /\ doc.widthMm = toFixed2(doc.viewBox[3] * 10000, 37795)
      /\ doc.heightMm = toFixed2(doc.viewBox[4] * 10000, 37795)

\* the number of inner paths the regions before the k-th one produced
RECURSIVE PathsBefore(_)
PathsBefore(k) == IF k <= 1 THEN 0 ELSE PathsBefore(k - 1) + dispatch[k - 1].count

\* the kinds of the inner paths the k-th surviving region produced
KindsOf(k) ==
  {innerPaths[i].pathType : i \in (PathsBefore(k) + 1)..(PathsBefore(k) + dispatch[k].count)}

\* avgWidth > 2 + 3 * s with avgWidth = 2 * area / max(bounds width, bounds height)
Thick(r, s) ==
  2 * r.area >
    (2 + 3 * s) * Max(r.bounds.maxX - r.bounds.minX + 1, r.bounds.maxY - r.bounds.minY + 1)

\* C23: every surviving region is traced as OUTLINE if and only if its
\* avgWidth = 2 * area / max(bounds width, bounds height) exceeds
\* 2 + 3 * centerlineSensitivity, and otherwise all of its paths are
\* CENTERLINE; no region produces paths of both kinds.
DispatchByWidth ==
  pc \in {"layers", "done"} =>
    /\ Len(dispatch) = Len(filteredRegions)
    /\ Len(innerPaths) = PathsBefore(Len(dispatch) + 1)
    /\ \A k \in DOMAIN filteredRegions :
         /\ dispatch[k].useOutline = Thick(filteredRegions[k], params.centerlineSensitivity)
         /\ KindsOf(k) \subseteq
              (IF Thick(filteredRegions[k], params.centerlineSensitivity)
               THEN {OUTLINE} ELSE {CENTERLINE})

\* C24: the noise filter drops exactly the regions of fewer than 15 pixels: the
\* regions the detail stage keeps are those the area cutoff keeps among the
\* regions of at least 15 pixels.
NoiseFloor ==
  pc \in {"trace", "layers", "done"} /\ detailEnabled(params) =>
    filteredRegions =
      cutoffFilter(
        sortByArea(SelectSeq(identifyRegions(binaryData, canvasW(image), canvasH(image)),
                             LAMBDA r : r.area >= noiseThreshold)),
        params)

\* the two ends of a polyline
Ends(p) == {p[1], p[Len(p)]}

\* C25: when the merge loop of optimizePaths has ended, no two distinct
\* polylines of the list have an endpoint of one within the threshold of an
\* endpoint of the other (start-start, start-end, end-start or end-end).
NoMergeablePair ==
  pc = "merged" =>
    \A i, j \in DOMAIN connected :
      i # j =>
        \A a \in Ends(connected[i]), b \in Ends(connected[j]) : ~near(a, b, variant)

Adj8(i, j, w) ==
  i # j /\ Abs(PX(i, w) - PX(j, w)) <= 1 /\ Abs(PY(i, w) - PY(j, w)) <= 1

\* the cells of S joined to R by steps between 8-adjacent cells of S
RECURSIVE Reach8(_, _, _)
Reach8(S, R, w) ==
  LET R2 == R \cup {i \in S : \E j \in R : Adj8(i, j, w)}
  IN IF R2 = R THEN R ELSE Reach8(S, R2, w)

\* the 8-connected components of the cells S of a mask of width w
Components8(S, w) == {Reach8(S, {i}, w) : i \in S}

\* C26: the output of zhangSuen has as many 8-connected foreground components
\* as its input: no component is split and none is erased.
ThinningKeepsComponents ==
  pc \in {"thinned", "chains"} =>
    Cardinality(Components8(skeleton, rmask.w)) =
      Cardinality(Components8(rmask.cells, rmask.w))

\* the background cells of mask m joined to the outside of the grid by steps
\* between 8-adjacent background cells
Exterior(m) ==
  LET bg == (0..(m.w * m.h - 1)) \ m.cells
      edge == {i \in bg : PX(i, m.w) \in {0, m.w - 1} \/ PY(i, m.w) \in {0, m.h - 1}}
  IN Reach8(bg, edge, m.w)

\* a pixel on the outer boundary of the foreground: on the edge of the grid or
\* 8-adjacent to a background cell that is not in a hole
Outer(p, m) ==
  \/ p[1] \in {0, m.w - 1}
  \/ p[2] \in {0, m.h - 1}
  \/ \E i \in Exterior(m) : Adj8(i, Idx(p[1], p[2], m.w), m.w)

\* C27: holes are not traced: every polygon traceContour returns for a region
\* runs along the outer boundary only, none follows the border of a hole the
\* region encloses.
HolesNotTraced ==
  pc = "contours" =>
    \A k \in DOMAIN contours : \A c \in DOMAIN contours[k] :
      \A j \in DOMAIN contours[k][c] : Outer(contours[k][c][j], rmask)

\* C28: every point of every polygon traceContour returns for a region is a
\* border pixel of that region, also when another region touches it diagonally.
ContoursOnRegion ==
  pc = "contours" =>
    \A k \in DOMAIN contours : \A c \in DOMAIN contours[k] :
      \A j \in DOMAIN contours[k][c] :
        /\ contours[k][c][j] \in SeqRange(regions[k].pixels)
        /\ isBorder(contours[k][c][j][1], contours[k][c][j][2], rmask.cells, rmask.w, rmask.h)

\* C29: every walk started on a pixel that has a foreground 8-neighbour ends
\* back on its start pixel, after at most 8 steps per foreground pixel and
\* before the step limit.
WalkReturnsToStart ==
  pc = "contours" =>
    \A k \in DOMAIN walks : \A n \in DOMAIN walks[k] :
      LET wk == walks[k][n]
          start == wk.contour[1]
      IN (\E i \in rmask.cells : Adj8(i, Idx(start[1], start[2], rmask.w), rmask.w)) =>
           /\ <<wk.cx, wk.cy>> = start
           /\ wk.steps <= 8 * Cardinality(rmask.cells)
           /\ wk.steps < maxSteps

\* C29, amended: every walk started on a pixel that has a foreground
\* 8-neighbour goes on until it is back on its start pixel, which takes at most
\* 8 steps per foreground pixel, unless it has made maxSteps steps before: then
\* the step limit stops it.
WalkReturnsOrStepLimit ==
  pc = "contours" =>
    \A k \in DOMAIN walks : \A n \in DOMAIN walks[k] :
      LET wk == walks[k][n]
          start == wk.contour[1]
      IN (\E i \in rmask.cells : Adj8(i, Idx(start[1], start[2], rmask.w), rmask.w)) =>
           /\ \A j \in 2..Len(wk.contour) : wk.contour[j] # start
           /\ \/ /\ <<wk.cx, wk.cy>> = start
                 /\ wk.steps <= 8 * Cardinality(rmask.cells)
                 /\ wk.steps <= maxSteps
              \/ /\ <<wk.cx, wk.cy>> # start
                 /\ wk.steps = maxSteps

\* the walk along the long line was stopped by the step limit, two pixels
\* short of its start
WalkStepLimitWitness ==
  /\ pc = "contours"
  /\ rmask = LongLine
  /\ walks[1][1].steps = maxSteps
  /\ <<walks[1][1].cx, walks[1][1].cy>> = <<2, 0>>
  /\ walks[1][1].contour[1] = <<0, 0>>

\* C30: in the App with the convert button, whenever the status is SUCCESS and
\* a result is shown, the result was computed from the image the App holds
\* now: a conversion started for an image that was removed or replaced since
\* sets neither the result nor SUCCESS.
NoStaleResult ==
  (pc = "app" /\ build = "convert" /\ status = SUCCESS /\ appResult # 0) =>
    appResult = appImage

====
